---- MODULE Spec2Model ----
(***************************************************************************)
(* State-machine model of beehive_monitor.ino: the cooperative loop()      *)
(* (HTTP handlers, the SMS dispatcher manageSMS, the sensor sampler, the    *)
(* alert evaluator checkAlerts and the periodic database save) together    *)
(* with the session check is_authenticated.                                *)
(*                                                                         *)
(* Time values (millis() and every timer that stores one) are C            *)
(* `unsigned long`, 32 bits wide on the ESP32.  A value u is held as the    *)
(* signed integer with the same 32-bit pattern (u for u < 2^31, u - 2^32    *)
(* otherwise); UAdd, USub and ULt are the unsigned operations on that       *)
(* representation.  Below 2^31 they coincide with ordinary arithmetic.      *)
(*                                                                         *)
(* Floats are modelled by integers (4000 stands for 40.0); a failed DHT read *)
(* is the value NaN.  Strings that are only compared are TLA+ strings; an   *)
(* alert message is a record of the parts the code formats into it.         *)
(***************************************************************************)
EXTENDS Integers, Sequences, FiniteSets, TLC

----------------------------------------------------------------------------
(* Program constants *)

DB_SAVE_INTERVAL == 30000
SESSION_TIMEOUT == 1800000
SENSOR_INTERVAL == 2000
SMS_COOLDOWN == 300000
SMS_STEP_DELAY == 200
SMS_WAIT_DELAY == 3000
SETUP_DELAY == 5100
MaxInt == 2147483647
MinInt == (-MaxInt) - 1

(* A float is held as its number of hundredths (40.0 is 4000), an int as    *)
(* itself                                                                    *)
DefaultPhone == "+254700000000"
DefaultLimTemp == 4000
DefaultLimHum == 8500
DefaultLimWeight == 5000
DefaultLimAir == 400

login_user == "admin"
login_pass == "admin"
TestMessage == "Test Alert from Lebu's Farm System."

(* isnan(): the value a failed DHT read returns *)
NaN == -1

----------------------------------------------------------------------------
(* unsigned long arithmetic on 32-bit patterns *)

UAdd(a, b) ==
  IF a >= 0 /\ b >= 0
    THEN IF a <= MaxInt - b THEN a + b
         ELSE ((((a - MaxInt) - 1) + b) - MaxInt) - 1
  ELSE IF a < 0 /\ b < 0
    THEN IF a >= MinInt - b THEN a + b
         ELSE ((((a + MaxInt) + 1) + b) + MaxInt) + 1
  ELSE a + b

UNeg(b) == IF b = MinInt THEN MinInt ELSE -b

USub(a, b) == UAdd(a, UNeg(b))

ULt(a, b) == IF (a < 0) = (b < 0) THEN a < b ELSE b < 0

UGt(a, b) == ULt(b, a)

UGe(a, b) == ~ULt(a, b)

(* millis() / 1000 *)
UDiv1000(a) ==
  IF a >= 0 THEN a \div 1000
  ELSE LET r == (a + MaxInt) + 1
       IN  (r \div 1000) + 2147483 + (((r % 1000) + 648) \div 1000)

----------------------------------------------------------------------------
VARIABLES
  clock,               \* millis()
  pc,                  \* position of loop(): "wait", "client", "body"
  temperature, humidity, weight, mq135_raw,
  activePhoneNumber, lim_temp, lim_hum, lim_weight, lim_air,
  session_expiry, is_logged_in,
  lastSensorMillis, lastDbMillis,
  currentSmsState, smsTimer, lastSmsCooldown, smsQueueNum, smsQueueMsg,
  readings,            \* table readings of sensor.db, in id order
  settingsRow,         \* row id=1 of table settings
  sim800,              \* what was written to the SIM800 serial port
  resp,                \* the response sent by the last handler
  hist,                \* history of the run the properties refer to
  passes               \* number of passes of loop() started

sensorVars == <<temperature, humidity, weight, mq135_raw>>
settingsVars == <<activePhoneNumber, lim_temp, lim_hum, lim_weight, lim_air>>
sessionVars == <<session_expiry, is_logged_in>>
timerVars == <<lastSensorMillis, lastDbMillis>>
smsVars == <<currentSmsState, smsTimer, smsQueueNum, smsQueueMsg>>
dbVars == <<readings, settingsRow>>

vars == <<clock, pc, sensorVars, settingsVars, sessionVars, timerVars, smsVars,
          lastSmsCooldown, dbVars, sim800, resp, hist, passes>>

----------------------------------------------------------------------------
(* Session: is_authenticated() *)

NoCookie == ""
MarkerCookie == "ESPSESSIONID=1"
ClearedCookie == "ESPSESSIONID=0"

(* server.hasHeader("Cookie") *)
HasCookieHeader(cookie) == cookie # NoCookie

(* A Cookie header written by another client, the marker among its cookies *)
ForeignCookie == "client=other; ESPSESSIONID=1"

(* the marker looked for at the start of the header only *)
IndexOfMarker_AtStartOnly(cookie) == IF cookie = MarkerCookie THEN 0 ELSE -1

(* cookie.indexOf("ESPSESSIONID=1"): the position of the marker in the header *)
IndexOfMarker(cookie) ==
  IF cookie = MarkerCookie THEN 0
  ELSE IF cookie = ForeignCookie THEN 14
  ELSE -1

(* is_authenticated without the expiry test *)
is_authenticated_NoExpiry(flag, expiry, now, cookie) ==
  IF ~flag THEN [ok |-> FALSE, flag |-> flag, expiry |-> expiry]
  ELSE IF cookie # "" /\ cookie = "ESPSESSIONID=1"
    THEN [ok |-> TRUE, flag |-> flag, expiry |-> UAdd(now, SESSION_TIMEOUT)]
  ELSE [ok |-> FALSE, flag |-> flag, expiry |-> expiry]

(* is_authenticated leaving the expiry where login set it *)
is_authenticated_NoRenew(flag, expiry, now, cookie) ==
  IF ~flag THEN [ok |-> FALSE, flag |-> flag, expiry |-> expiry]
  ELSE IF UGt(now, expiry) THEN [ok |-> FALSE, flag |-> FALSE, expiry |-> expiry]
  ELSE IF cookie # "" /\ cookie = "ESPSESSIONID=1"
    THEN [ok |-> TRUE, flag |-> flag, expiry |-> expiry]
  ELSE [ok |-> FALSE, flag |-> flag, expiry |-> expiry]

(* Result: the returned value and the globals as the call leaves them *)
is_authenticated(flag, expiry, now, cookie) ==
  IF ~flag THEN [ok |-> FALSE, flag |-> flag, expiry |-> expiry]
  ELSE IF UGt(now, expiry) THEN [ok |-> FALSE, flag |-> FALSE, expiry |-> expiry]
  ELSE IF HasCookieHeader(cookie) /\ IndexOfMarker(cookie) # -1
    THEN [ok |-> TRUE, flag |-> flag, expiry |-> UAdd(now, SESSION_TIMEOUT)]
  ELSE [ok |-> FALSE, flag |-> flag, expiry |-> expiry]

Auth(cookie) == is_authenticated(is_logged_in, session_expiry, clock, cookie)

----------------------------------------------------------------------------
(* SMS dispatcher: triggerSMS() and manageSMS() *)

NoMsg == [kind |-> "none", reading |-> 0, limit |-> 0]
TestMsg == [kind |-> TestMessage, reading |-> 0, limit |-> 0]

SmsNow == [state |-> currentSmsState, timer |-> smsTimer,
           num |-> smsQueueNum, msg |-> smsQueueMsg]

(* triggerSMS without the SMS_IDLE test *)
triggerSMS_Unguarded(sms, number, message) ==
  [sms EXCEPT !.num = number, !.msg = message, !.state = "SMS_MODE"]

triggerSMS(sms, number, message) ==
  IF sms.state = "SMS_IDLE"
    THEN [sms EXCEPT !.num = number, !.msg = message, !.state = "SMS_MODE"]
    ELSE sms

(* manageSMS going from SMS_NUMBER straight to SMS_WAIT *)
manageSMS_SkipContent(sms, out, now) ==
  IF sms.state = "SMS_IDLE" THEN [sms |-> sms, out |-> out]
  ELSE IF sms.state = "SMS_MODE"
    THEN [sms |-> [sms EXCEPT !.timer = now, !.state = "SMS_NUMBER"],
          out |-> Append(out, [cmd |-> "AT+CMGF=1", arg |-> "", msg |-> NoMsg])]
  ELSE IF sms.state = "SMS_NUMBER"
    THEN IF UGt(USub(now, sms.timer), SMS_STEP_DELAY)
           THEN [sms |-> [sms EXCEPT !.timer = now, !.state = "SMS_WAIT"],
                 out |-> Append(out, [cmd |-> "AT+CMGS=", arg |-> sms.num, msg |-> NoMsg])]
           ELSE [sms |-> sms, out |-> out]
  ELSE IF UGt(USub(now, sms.timer), SMS_WAIT_DELAY)
         THEN [sms |-> [sms EXCEPT !.state = "SMS_IDLE"], out |-> out]
         ELSE [sms |-> sms, out |-> out]

(* manageSMS starting the dialogue again when the SMS_WAIT delay is over *)
manageSMS_Resend(sms, out, now) ==
  IF sms.state = "SMS_IDLE" THEN [sms |-> sms, out |-> out]
  ELSE IF sms.state = "SMS_MODE"
    THEN [sms |-> [sms EXCEPT !.timer = now, !.state = "SMS_NUMBER"],
          out |-> Append(out, [cmd |-> "AT+CMGF=1", arg |-> NoCookie, msg |-> NoMsg])]
  ELSE IF sms.state = "SMS_NUMBER"
    THEN IF UGt(USub(now, sms.timer), SMS_STEP_DELAY)
           THEN [sms |-> [sms EXCEPT !.timer = now, !.state = "SMS_CONTENT"],
                 out |-> Append(out, [cmd |-> "AT+CMGS=", arg |-> sms.num, msg |-> NoMsg])]
           ELSE [sms |-> sms, out |-> out]
  ELSE IF sms.state = "SMS_CONTENT"
    THEN IF UGt(USub(now, sms.timer), SMS_STEP_DELAY)
           THEN [sms |-> [sms EXCEPT !.timer = now, !.state = "SMS_WAIT"],
                 out |-> Append(out, [cmd |-> "26", arg |-> NoCookie, msg |-> sms.msg])]
           ELSE [sms |-> sms, out |-> out]
  ELSE IF UGt(USub(now, sms.timer), SMS_WAIT_DELAY)
         THEN [sms |-> [sms EXCEPT !.state = "SMS_MODE"], out |-> out]
         ELSE [sms |-> sms, out |-> out]

(* manageSMS leaving SMS_NUMBER and SMS_CONTENT once the step delay is reached *)
manageSMS_AtLeast(sms, out, now) ==
  IF sms.state = "SMS_IDLE" THEN [sms |-> sms, out |-> out]
  ELSE IF sms.state = "SMS_MODE"
    THEN [sms |-> [sms EXCEPT !.timer = now, !.state = "SMS_NUMBER"],
          out |-> Append(out, [cmd |-> "AT+CMGF=1", arg |-> NoCookie, msg |-> NoMsg])]
  ELSE IF sms.state = "SMS_NUMBER"
    THEN IF UGe(USub(now, sms.timer), SMS_STEP_DELAY)
           THEN [sms |-> [sms EXCEPT !.timer = now, !.state = "SMS_CONTENT"],
                 out |-> Append(out, [cmd |-> "AT+CMGS=", arg |-> sms.num, msg |-> NoMsg])]
           ELSE [sms |-> sms, out |-> out]
  ELSE IF sms.state = "SMS_CONTENT"
    THEN IF UGe(USub(now, sms.timer), SMS_STEP_DELAY)
           THEN [sms |-> [sms EXCEPT !.timer = now, !.state = "SMS_WAIT"],
                 out |-> Append(out, [cmd |-> "26", arg |-> NoCookie, msg |-> sms.msg])]
           ELSE [sms |-> sms, out |-> out]
  ELSE IF UGt(USub(now, sms.timer), SMS_WAIT_DELAY)
         THEN [sms |-> [sms EXCEPT !.state = "SMS_IDLE"], out |-> out]
         ELSE [sms |-> sms, out |-> out]

(* manageSMS leaving SMS_WAIT once the wait delay is reached *)
manageSMS_WaitAtLeast(sms, out, now) ==
  IF sms.state = "SMS_IDLE" THEN [sms |-> sms, out |-> out]
  ELSE IF sms.state = "SMS_MODE"
    THEN [sms |-> [sms EXCEPT !.timer = now, !.state = "SMS_NUMBER"],
          out |-> Append(out, [cmd |-> "AT+CMGF=1", arg |-> NoCookie, msg |-> NoMsg])]
  ELSE IF sms.state = "SMS_NUMBER"
    THEN IF UGt(USub(now, sms.timer), SMS_STEP_DELAY)
           THEN [sms |-> [sms EXCEPT !.timer = now, !.state = "SMS_CONTENT"],
                 out |-> Append(out, [cmd |-> "AT+CMGS=", arg |-> sms.num, msg |-> NoMsg])]
           ELSE [sms |-> sms, out |-> out]
  ELSE IF sms.state = "SMS_CONTENT"
    THEN IF UGt(USub(now, sms.timer), SMS_STEP_DELAY)
           THEN [sms |-> [sms EXCEPT !.timer = now, !.state = "SMS_WAIT"],
                 out |-> Append(out, [cmd |-> "26", arg |-> NoCookie, msg |-> sms.msg])]
           ELSE [sms |-> sms, out |-> out]
  ELSE IF UGe(USub(now, sms.timer), SMS_WAIT_DELAY)
         THEN [sms |-> [sms EXCEPT !.state = "SMS_IDLE"], out |-> out]
         ELSE [sms |-> sms, out |-> out]

(* manageSMS writing the body before the recipient *)
manageSMS_BodyFirst(sms, out, now) ==
  IF sms.state = "SMS_IDLE" THEN [sms |-> sms, out |-> out]
  ELSE IF sms.state = "SMS_MODE"
    THEN [sms |-> [sms EXCEPT !.timer = now, !.state = "SMS_NUMBER"],
          out |-> Append(out, [cmd |-> "AT+CMGF=1", arg |-> NoCookie, msg |-> NoMsg])]
  ELSE IF sms.state = "SMS_NUMBER"
    THEN IF UGt(USub(now, sms.timer), SMS_STEP_DELAY)
           THEN [sms |-> [sms EXCEPT !.timer = now, !.state = "SMS_CONTENT"],
                 out |-> Append(out, [cmd |-> "26", arg |-> NoCookie, msg |-> sms.msg])]
           ELSE [sms |-> sms, out |-> out]
  ELSE IF sms.state = "SMS_CONTENT"
    THEN IF UGt(USub(now, sms.timer), SMS_STEP_DELAY)
           THEN [sms |-> [sms EXCEPT !.timer = now, !.state = "SMS_WAIT"],
                 out |-> Append(out, [cmd |-> "AT+CMGS=", arg |-> sms.num, msg |-> NoMsg])]
           ELSE [sms |-> sms, out |-> out]
  ELSE IF UGt(USub(now, sms.timer), SMS_WAIT_DELAY)
         THEN [sms |-> [sms EXCEPT !.state = "SMS_IDLE"], out |-> out]
         ELSE [sms |-> sms, out |-> out]

(* Result: the dispatcher globals and the serial output after one call *)
manageSMS(sms, out, now) ==
  IF sms.state = "SMS_IDLE" THEN [sms |-> sms, out |-> out]
  ELSE IF sms.state = "SMS_MODE"
    THEN [sms |-> [sms EXCEPT !.timer = now, !.state = "SMS_NUMBER"],
          out |-> Append(out, [cmd |-> "AT+CMGF=1", arg |-> NoCookie, msg |-> NoMsg])]
  ELSE IF sms.state = "SMS_NUMBER"
    THEN IF UGt(USub(now, sms.timer), SMS_STEP_DELAY)
           THEN [sms |-> [sms EXCEPT !.timer = now, !.state = "SMS_CONTENT"],
                 out |-> Append(out, [cmd |-> "AT+CMGS=", arg |-> sms.num, msg |-> NoMsg])]
           ELSE [sms |-> sms, out |-> out]
  ELSE IF sms.state = "SMS_CONTENT"
    THEN IF UGt(USub(now, sms.timer), SMS_STEP_DELAY)
           THEN [sms |-> [sms EXCEPT !.timer = now, !.state = "SMS_WAIT"],
                 out |-> Append(out, [cmd |-> "26", arg |-> NoCookie, msg |-> sms.msg])]
           ELSE [sms |-> sms, out |-> out]
  ELSE IF UGt(USub(now, sms.timer), SMS_WAIT_DELAY)
         THEN [sms |-> [sms EXCEPT !.state = "SMS_IDLE"], out |-> out]
         ELSE [sms |-> sms, out |-> out]

----------------------------------------------------------------------------
(* Alert evaluator: checkAlerts() *)

(* The chain written as four separate ifs: the last breached channel wins *)
AlertMsg_LastWins(t, h, w, a, lt, lh, lw, la) ==
  IF a > la THEN [kind |-> "Poor Air Quality", reading |-> a, limit |-> la]
  ELSE IF w > lw THEN [kind |-> "Weight Exceeded", reading |-> w, limit |-> lw]
  ELSE IF h > lh THEN [kind |-> "High Humidity", reading |-> h, limit |-> lh]
  ELSE IF t > lt THEN [kind |-> "High Temperature", reading |-> t, limit |-> lt]
  ELSE [kind |-> "none", reading |-> 0, limit |-> 0]

(* The if / else-if chain: the message of the first breached channel *)
AlertMsg(t, h, w, a, lt, lh, lw, la) ==
  IF t > lt THEN [kind |-> "High Temperature", reading |-> t, limit |-> lt]
  ELSE IF h > lh THEN [kind |-> "High Humidity", reading |-> h, limit |-> lh]
  ELSE IF w > lw THEN [kind |-> "Weight Exceeded", reading |-> w, limit |-> lw]
  ELSE IF a > la THEN [kind |-> "Poor Air Quality", reading |-> a, limit |-> la]
  ELSE NoMsg

(* The cooldown measured from boot instead of from the last alert *)
CoolingDown_FromBoot(now, last) == ULt(now, SMS_COOLDOWN)

(* checkAlerts without its first line *)
CoolingDown_Never(now, last) == FALSE

(* The first line: still inside the cooldown *)
CoolingDown(now, last) == ULt(USub(now, last), SMS_COOLDOWN)

(* checkAlerts restarting the cooldown only when the dispatcher took the job *)
checkAlerts_CooldownOnAccept(sms, last, now, t, h, w, a, phone, lt, lh, lw, la) ==
  IF CoolingDown(now, last)
    THEN [sms |-> sms, last |-> last, alert |-> FALSE, msg |-> NoMsg]
  ELSE LET msg == AlertMsg(t, h, w, a, lt, lh, lw, la)
       IN  IF msg # NoMsg
             THEN [sms |-> triggerSMS(sms, phone, msg),
                   last |-> IF sms.state = "SMS_IDLE" THEN now ELSE last,
                   alert |-> TRUE, msg |-> msg]
             ELSE [sms |-> sms, last |-> last, alert |-> FALSE, msg |-> NoMsg]

(* Result: dispatcher globals, lastSmsCooldown, whether an alert was raised *)
(* and the message handed to triggerSMS()                                   *)
checkAlerts(sms, last, now, t, h, w, a, phone, lt, lh, lw, la) ==
  IF CoolingDown(now, last)
    THEN [sms |-> sms, last |-> last, alert |-> FALSE, msg |-> NoMsg]
  ELSE LET msg == AlertMsg(t, h, w, a, lt, lh, lw, la)
       IN  IF msg # NoMsg
             THEN [sms |-> triggerSMS(sms, phone, msg), last |-> now,
                   alert |-> TRUE, msg |-> msg]
             ELSE [sms |-> sms, last |-> last, alert |-> FALSE, msg |-> NoMsg]

----------------------------------------------------------------------------
(* Sampler: the sensor block of loop() *)

(* the assignment without the isnan() test *)
KeepIfNaN_Unchecked(old, read) == read

(* if (!isnan(t)) temperature = t; *)
KeepIfNaN(old, read) == IF read # NaN THEN read ELSE old

(* if (scale.is_ready()) weight = scale.get_units(10); *)
KeepIfNotReady(old, ready, read) == IF ready THEN read ELSE old

----------------------------------------------------------------------------
(* Persistence: getTimestamp() and saveToDatabase() *)

(* Local time is counted in seconds; getLocalTime() failing is local time 0 *)
NoLocalTime == 0
SecondsPerDay == 86400

(* getTimestamp formatting whatever getLocalTime() left in the struct *)
getTimestamp_Unchecked(localTime) == "date"

getTimestamp(localTime) ==
  IF localTime = NoLocalTime THEN "N/A" ELSE "date"

(* The text bound to column timestamp: "Offline-" and the seconds since     *)
(* boot, or the date (day) and the time of day (n) strftime() writes        *)
Timestamp(localTime, now) ==
  IF getTimestamp(localTime) = "N/A"
    THEN [prefix |-> "Offline-", day |-> 0, n |-> UDiv1000(now)]
    ELSE [prefix |-> "", day |-> localTime \div SecondsPerDay,
          n |-> localTime % SecondsPerDay]

(* saveToDatabase counting the row as inserted once the statement prepared *)
saveToDatabase_IgnoreStep(table, localTime, now, t, h, w, a, prepareOk, stepOk) ==
  IF prepareOk
    THEN Append(table, [timestamp |-> Timestamp(localTime, now),
                        temp |-> t, hum |-> h, weight |-> w, mq |-> a])
    ELSE table

(* saveToDatabase deleting the oldest row before it inserts *)
saveToDatabase_Pruning(table, localTime, now, t, h, w, a, prepareOk, stepOk) ==
  IF prepareOk /\ stepOk
    THEN Append(IF table = <<>> THEN table ELSE Tail(table),
                [timestamp |-> Timestamp(localTime, now),
                 temp |-> t, hum |-> h, weight |-> w, mq |-> a])
    ELSE table

(* Result: table readings after the call; prepare or step may fail *)
saveToDatabase(table, localTime, now, t, h, w, a, prepareOk, stepOk) ==
  IF prepareOk /\ stepOk
    THEN Append(table, [timestamp |-> Timestamp(localTime, now),
                        temp |-> t, hum |-> h, weight |-> w, mq |-> a])
    ELSE table

(* SELECT ... FROM readings ORDER BY id DESC LIMIT n without the LIMIT *)
queryRecent_NoLimit(table, n) ==
  [i \in 1..Len(table) |-> table[(Len(table) - i) + 1]]

(* SELECT ... FROM readings ORDER BY id DESC LIMIT n: id grows with each    *)
(* insertion, so the rows come last inserted first                          *)
queryRecent(table, n) ==
  LET k == IF Len(table) < n THEN Len(table) ELSE n
  IN  [i \in 1..k |-> table[(Len(table) - i) + 1]]

(* timestamp LIKE 'Offline-%' *)
IsOffline(ts) == ts.prefix = "Offline-"

RECURSIVE LeadingTwoDigits(_)
LeadingTwoDigits(n) == IF n < 100 THEN n ELSE LeadingTwoDigits(n \div 10)

(* substr(timestamp, 1, 10): the date of a dated timestamp, "Offline-" and  *)
(* two digits of an offline one                                             *)
DayOf(ts) ==
  IF ts.prefix = "" THEN [prefix |-> "", day |-> ts.day]
  ELSE [prefix |-> ts.prefix, day |-> LeadingTwoDigits(ts.n)]

RECURSIVE SumOf(_, _)
SumOf(rows, col) ==
  IF rows = <<>> THEN 0 ELSE rows[1][col] + SumOf(Tail(rows), col)

(* printf("%.2f") of sum / n: the nearest hundredth; an average half way    *)
(* between two hundredths may print as either                               *)
FormatAvg(sum, n) ==
  LET q == sum \div n
      r == sum % n
  IN  IF 2 * r < n THEN {q}
      ELSE IF 2 * r > n THEN {q + 1}
      ELSE {q, q + 1}

(* One row of the GROUP BY: AVG() of each channel over the rows of the      *)
(* group, AVG(mq) read with sqlite3_column_int()                            *)
DayBucket(day, rows) ==
  [day |-> day,
   avg_temp |-> FormatAvg(SumOf(rows, "temp"), Len(rows)),
   avg_hum |-> FormatAvg(SumOf(rows, "hum"), Len(rows)),
   avg_weight |-> FormatAvg(SumOf(rows, "weight"), Len(rows)),
   avg_mq |-> SumOf(rows, "mq") \div Len(rows)]

(* ORDER BY day DESC LIMIT n over a set of groups; dates written            *)
(* YYYY-MM-DD order as texts the way they order as dates                     *)
RECURSIVE LatestDays(_, _)
LatestDays(days, n) ==
  IF days = {} \/ n = 0 THEN <<>>
  ELSE LET d == CHOOSE x \in days : \A y \in days : y.day <= x.day
       IN  <<d>> \o LatestDays(days \ {d}, n - 1)

(* The monthly query with the WHERE clause left out *)
queryMonthlyAverages_WithOffline(table, n) ==
  LET days == {DayOf(table[i].timestamp) : i \in 1..Len(table)}
      order == LatestDays(days, n)
  IN  [k \in 1..Len(order) |->
         DayBucket(order[k], SelectSeq(table, LAMBDA r : DayOf(r.timestamp) = order[k]))]

(* SELECT substr(timestamp,1,10) AS day, AVG(..) FROM readings WHERE        *)
(* timestamp NOT LIKE 'Offline-%' GROUP BY day ORDER BY day DESC LIMIT n     *)
queryMonthlyAverages(table, n) ==
  LET kept == SelectSeq(table, LAMBDA r : ~IsOffline(r.timestamp))
      days == {DayOf(kept[i].timestamp) : i \in 1..Len(kept)}
      order == LatestDays(days, n)
  IN  [k \in 1..Len(order) |->
         DayBucket(order[k], SelectSeq(kept, LAMBDA r : DayOf(r.timestamp) = order[k]))]

----------------------------------------------------------------------------
(* Initial state: the globals as setup() leaves them on a first boot *)

NoResp == [route |-> "", code |-> 0, body |-> "", json |-> <<>>]

Reply(route, code, body) == [route |-> route, code |-> code, body |-> body, json |-> <<>>]

ReplyJson(route, json) == [route |-> route, code |-> 200, body |-> "application/json", json |-> json]

SmsStates == {"SMS_IDLE", "SMS_MODE", "SMS_NUMBER", "SMS_CONTENT", "SMS_WAIT"}

NoHist == [wrote |-> "none", accepted |-> 0, entered |-> [s \in SmsStates |-> 0],
           alerts |-> <<>>, held |-> <<>>, alertMsg |-> NoMsg, evalSms |-> "none",
           skipped |-> 0, caughtUp |-> 0,
           lastGood |-> [t |-> 0, h |-> 0, w |-> 0, a |-> 0], failed |-> {},
           cookie |-> "", wasLoggedIn |-> FALSE, jobs |-> <<>>,
           events |-> <<>>]

(* openDatabase(): the seeded settings row *)
SeedSettings == [phone |-> DefaultPhone, lim_t |-> DefaultLimTemp, lim_h |-> DefaultLimHum,
                 lim_w |-> DefaultLimWeight, lim_a |-> DefaultLimAir]

(* setup() on a database holding one of tables as its readings log *)
BootAt(bootClock, localTimes, tables) ==
  /\ clock = bootClock
  /\ pc = "wait"
  /\ temperature = 0 /\ humidity = 0 /\ weight = 0 /\ mq135_raw = 0
  /\ settingsRow = SeedSettings
  /\ activePhoneNumber = settingsRow.phone
  /\ lim_temp = settingsRow.lim_t /\ lim_hum = settingsRow.lim_h
  /\ lim_weight = settingsRow.lim_w /\ lim_air = settingsRow.lim_a
  /\ session_expiry = 0 /\ is_logged_in = FALSE
  /\ lastSensorMillis = 0 /\ lastDbMillis = 0
  /\ currentSmsState = "SMS_IDLE" /\ smsTimer = 0 /\ lastSmsCooldown = 0
  /\ smsQueueNum = "" /\ smsQueueMsg = NoMsg
  /\ \E table \in tables, lt \in localTimes, ok \in BOOLEAN :
       readings = saveToDatabase(table, lt, bootClock, 0, 0, 0, 0, ok, ok)
  /\ sim800 = <<[cmd |-> "AT", arg |-> NoCookie, msg |-> NoMsg]>>
  /\ resp = NoResp
  /\ hist = NoHist
  /\ passes = 0

(* The first boot: the log is empty *)
InitAt(bootClock, localTimes) == BootAt(bootClock, localTimes, {<<>>})

----------------------------------------------------------------------------
(* Time passing between two passes of loop() *)

Advance(d) ==
  /\ pc = "wait"
  /\ clock' = UAdd(clock, d)
  /\ pc' = "client"
  /\ resp' = NoResp
  /\ hist' = [hist EXCEPT !.wrote = "none", !.evalSms = "none", !.caughtUp = 0,
                           !.alertMsg = NoMsg, !.failed = {},
                           !.cookie = "", !.wasLoggedIn = FALSE, !.events = <<>>]
  /\ UNCHANGED <<sensorVars, settingsVars, sessionVars, timerVars, smsVars,
                 lastSmsCooldown, dbVars, sim800>>

----------------------------------------------------------------------------
(* A reset or power cycle between two passes: setup() runs again.  The       *)
(* globals get their initializers, openDatabase() keeps the tables and the   *)
(* settings row it finds, loadSettings() reads the row into memory when its  *)
(* query succeeds, and one reading is saved.                                 *)

loadSettings(row, loadOk) ==
  IF loadOk THEN row ELSE SeedSettings

Restart(localTime, loadOk, prepareOk, stepOk) ==
  LET loaded == loadSettings(settingsRow, loadOk) IN
  /\ pc = "wait"
  /\ pc' = "wait"
  /\ clock' = SETUP_DELAY
  /\ temperature' = 0 /\ humidity' = 0 /\ weight' = 0 /\ mq135_raw' = 0
  /\ settingsRow' = settingsRow
  /\ activePhoneNumber' = loaded.phone
  /\ lim_temp' = loaded.lim_t /\ lim_hum' = loaded.lim_h
  /\ lim_weight' = loaded.lim_w /\ lim_air' = loaded.lim_a
  /\ session_expiry' = 0 /\ is_logged_in' = FALSE
  /\ lastSensorMillis' = 0 /\ lastDbMillis' = 0
  /\ currentSmsState' = "SMS_IDLE" /\ smsTimer' = 0 /\ lastSmsCooldown' = 0
  /\ smsQueueNum' = "" /\ smsQueueMsg' = NoMsg
  /\ readings' = saveToDatabase(readings, localTime, SETUP_DELAY, 0, 0, 0, 0,
                                prepareOk, stepOk)
  /\ sim800' = <<[cmd |-> "AT", arg |-> NoCookie, msg |-> NoMsg]>>
  /\ resp' = NoResp
  /\ hist' = NoHist
  /\ UNCHANGED passes

----------------------------------------------------------------------------
(* server.handleClient(): at most one request is handled per pass *)

NoArg == "(no arg)"

(* hasArg answering true for an argument the request does not carry *)
hasArg_Always(a) == TRUE

hasArg(a) == a # NoArg

(* A numeric argument is the decimal text <<n>>, n its number of            *)
(* hundredths ("40.27" is <<4027>>); a missing or non-numeric one is <<>>    *)
(* String::toFloat(): the value of the text, 0 when there is none            *)
toFloat(a) == IF a = <<>> THEN 0 ELSE a[1]

(* String::toInt(): the digits before the decimal point, 0 when there are none *)
toInt(a) == IF a = <<>> THEN 0 ELSE a[1] \div 100

(* printf("%.1f"): the nearest tenth; a float written with a 5 in the       *)
(* hundredths is stored just below or just above it and prints either way    *)
FormatTenths(v) ==
  LET r == v % 10
  IN  IF r < 5 THEN {v - r}
      ELSE IF r > 5 THEN {(v - r) + 10}
      ELSE {v - r, (v - r) + 10}

Handled(r) ==
  /\ pc = "client"
  /\ pc' = "body"
  /\ resp' = r
  /\ UNCHANGED passes

(* The request as the properties see it: its cookie and the flag before it *)
Seen(cookie) == [hist EXCEPT !.cookie = cookie, !.wasLoggedIn = is_logged_in]

SessionAfter(a) ==
  /\ is_logged_in' = a.flag
  /\ session_expiry' = a.expiry

NoRequest ==
  /\ Handled(NoResp)
  /\ UNCHANGED <<clock, sensorVars, settingsVars, sessionVars, timerVars, smsVars,
                 lastSmsCooldown, dbVars, sim800, hist>>

HandleRoot(cookie) ==
  LET a == Auth(cookie) IN
  /\ Handled(IF a.ok THEN Reply("/", 303, "/dashboard") ELSE Reply("/", 200, "loginPage"))
  /\ SessionAfter(a)
  /\ hist' = Seen(cookie)
  /\ UNCHANGED <<clock, sensorVars, settingsVars, timerVars, smsVars,
                 lastSmsCooldown, dbVars, sim800>>

(* /login ending the session when the credentials do not match *)
HandleLogin_FailureLogsOut(username, password) ==
  LET match == hasArg(username) /\ hasArg(password)
               /\ username = login_user /\ password = login_pass IN
  /\ Handled(IF match THEN Reply("/login", 303, "/dashboard")
                      ELSE Reply("/login", 401, "Login Failed"))
  /\ is_logged_in' = match
  /\ session_expiry' = IF match THEN UAdd(clock, SESSION_TIMEOUT) ELSE session_expiry
  /\ UNCHANGED <<clock, sensorVars, settingsVars, timerVars, smsVars,
                 lastSmsCooldown, dbVars, sim800>>
  /\ hist' = Seen(NoCookie)

HandleLogin(username, password) ==
  LET match == hasArg(username) /\ hasArg(password)
               /\ username = login_user /\ password = login_pass IN
  /\ Handled(IF match THEN Reply("/login", 303, "/dashboard")
                      ELSE Reply("/login", 401, "Login Failed"))
  /\ is_logged_in' = IF match THEN TRUE ELSE is_logged_in
  /\ session_expiry' = IF match THEN UAdd(clock, SESSION_TIMEOUT) ELSE session_expiry
  /\ UNCHANGED <<clock, sensorVars, settingsVars, timerVars, smsVars,
                 lastSmsCooldown, dbVars, sim800>>
  /\ hist' = Seen(NoCookie)

HandleLogout ==
  /\ Handled(Reply("/logout", 303, "/"))
  /\ is_logged_in' = FALSE
  /\ UNCHANGED <<clock, sensorVars, settingsVars, session_expiry, timerVars, smsVars,
                 lastSmsCooldown, dbVars, sim800>>
  /\ hist' = Seen(NoCookie)

(* /dashboard and /report *)
HandlePage(route, cookie) ==
  LET a == Auth(cookie) IN
  /\ Handled(IF a.ok THEN Reply(route, 200, "page") ELSE Reply(route, 303, "/"))
  /\ SessionAfter(a)
  /\ hist' = Seen(cookie)
  /\ UNCHANGED <<clock, sensorVars, settingsVars, timerVars, smsVars,
                 lastSmsCooldown, dbVars, sim800>>

HandleData(cookie) ==
  LET a == Auth(cookie) IN
  /\ Handled(IF a.ok THEN ReplyJson("/data", <<temperature, humidity, weight, mq135_raw>>)
                     ELSE Reply("/data", 303, "/"))
  /\ SessionAfter(a)
  /\ hist' = Seen(cookie)
  /\ UNCHANGED <<clock, sensorVars, settingsVars, timerVars, smsVars,
                 lastSmsCooldown, dbVars, sim800>>

HandleGetSettings(cookie) ==
  LET a == Auth(cookie) IN
  /\ \E lt \in FormatTenths(lim_temp), lh \in FormatTenths(lim_hum),
        lw \in FormatTenths(lim_weight) :
       Handled(IF a.ok THEN ReplyJson("/get_settings",
                              <<activePhoneNumber, lt, lh, lw, lim_air>>)
                       ELSE Reply("/get_settings", 303, "/"))
  /\ SessionAfter(a)
  /\ hist' = Seen(cookie)
  /\ UNCHANGED <<clock, sensorVars, settingsVars, timerVars, smsVars,
                 lastSmsCooldown, dbVars, sim800>>

(* /save_settings answering after the UPDATE, with its outcome *)
HandleSaveSettings_WriteFirst(cookie, phone, lt, lh, lw, la, prepareOk, stepOk) ==
  LET a == Auth(cookie)
      stored == prepareOk /\ stepOk IN
  /\ SessionAfter(a)
  /\ IF ~a.ok
       THEN /\ Handled(Reply("/save_settings", 303, "/"))
            /\ hist' = Seen(cookie)
            /\ UNCHANGED <<settingsVars, dbVars>>
     ELSE IF hasArg(phone)
       THEN /\ activePhoneNumber' = phone
            /\ lim_temp' = toFloat(lt)
            /\ lim_hum' = toFloat(lh)
            /\ lim_weight' = toFloat(lw)
            /\ lim_air' = toInt(la)
            /\ Handled(IF stored THEN Reply("/save_settings", 303, "/dashboard")
                                  ELSE Reply("/save_settings", 500, "DB Error"))
            /\ settingsRow' = IF stored
                 THEN [phone |-> activePhoneNumber', lim_t |-> lim_temp', lim_h |-> lim_hum',
                       lim_w |-> lim_weight', lim_a |-> lim_air']
                 ELSE settingsRow
            /\ hist' = [Seen(cookie) EXCEPT !.wrote = IF stored THEN "settings" ELSE "none",
                                           !.events = <<"memory", "update", "response">>]
            /\ UNCHANGED readings
       ELSE /\ Handled(Reply("/save_settings", 400, "Bad Request"))
            /\ hist' = Seen(cookie)
            /\ UNCHANGED <<settingsVars, dbVars>>
  /\ UNCHANGED <<clock, sensorVars, timerVars, smsVars, lastSmsCooldown, sim800>>

(* /save_settings assigning the new phone number to the queued job as well *)
HandleSaveSettings_RetargetsJob(cookie, phone, lt, lh, lw, la, prepareOk, stepOk) ==
  LET a == Auth(cookie)
      stored == prepareOk /\ stepOk IN
  /\ SessionAfter(a)
  /\ IF ~a.ok
       THEN /\ Handled(Reply("/save_settings", 303, "/"))
            /\ hist' = Seen(cookie)
            /\ UNCHANGED <<settingsVars, dbVars>>
     ELSE IF hasArg(phone)
       THEN /\ activePhoneNumber' = phone
            /\ lim_temp' = toFloat(lt)
            /\ lim_hum' = toFloat(lh)
            /\ lim_weight' = toFloat(lw)
            /\ lim_air' = toInt(la)
            /\ Handled(Reply("/save_settings", 303, "/dashboard"))
            /\ settingsRow' = IF stored
                 THEN [phone |-> activePhoneNumber', lim_t |-> lim_temp', lim_h |-> lim_hum',
                       lim_w |-> lim_weight', lim_a |-> lim_air']
                 ELSE settingsRow
            /\ hist' = [Seen(cookie) EXCEPT !.wrote = IF stored THEN "settings" ELSE "none",
                                           !.events = <<"memory", "response", "update">>]
            /\ UNCHANGED readings
       ELSE /\ Handled(Reply("/save_settings", 400, "Bad Request"))
            /\ hist' = Seen(cookie)
            /\ UNCHANGED <<settingsVars, dbVars>>
  /\ smsQueueNum' = IF a.ok /\ hasArg(phone) THEN phone ELSE smsQueueNum
  /\ UNCHANGED <<clock, sensorVars, timerVars, currentSmsState, smsTimer, smsQueueMsg,
                 lastSmsCooldown, sim800>>

HandleSaveSettings(cookie, phone, lt, lh, lw, la, prepareOk, stepOk) ==
  LET a == Auth(cookie)
      stored == prepareOk /\ stepOk IN
  /\ SessionAfter(a)
  /\ IF ~a.ok
       THEN /\ Handled(Reply("/save_settings", 303, "/"))
            /\ hist' = Seen(cookie)
            /\ UNCHANGED <<settingsVars, dbVars>>
     ELSE IF hasArg(phone)
       THEN /\ activePhoneNumber' = phone
            /\ lim_temp' = toFloat(lt)
            /\ lim_hum' = toFloat(lh)
            /\ lim_weight' = toFloat(lw)
            /\ lim_air' = toInt(la)
            /\ Handled(Reply("/save_settings", 303, "/dashboard"))
            /\ settingsRow' = IF stored
                 THEN [phone |-> activePhoneNumber', lim_t |-> lim_temp', lim_h |-> lim_hum',
                       lim_w |-> lim_weight', lim_a |-> lim_air']
                 ELSE settingsRow
            /\ hist' = [Seen(cookie) EXCEPT !.wrote = IF stored THEN "settings" ELSE "none",
                                           !.events = <<"memory", "response", "update">>]
            /\ UNCHANGED readings
       ELSE /\ Handled(Reply("/save_settings", 400, "Bad Request"))
            /\ hist' = Seen(cookie)
            /\ UNCHANGED <<settingsVars, dbVars>>
  /\ UNCHANGED <<clock, sensorVars, timerVars, smsVars, lastSmsCooldown, sim800>>

HISTORY_LIMIT == 10

(* /history: the rows of the query, or none when prepare fails *)
HandleHistory(cookie, prepareOk) ==
  LET a == Auth(cookie) IN
  /\ Handled(IF a.ok
               THEN ReplyJson("/history",
                              IF prepareOk THEN queryRecent(readings, HISTORY_LIMIT)
                                           ELSE <<>>)
               ELSE Reply("/history", 303, "/"))
  /\ SessionAfter(a)
  /\ hist' = Seen(cookie)
  /\ UNCHANGED <<clock, sensorVars, settingsVars, timerVars, smsVars,
                 lastSmsCooldown, dbVars, sim800>>

MONTHLY_LIMIT == 30

(* /monthly_data: the rows of the query, or none when prepare fails *)
HandleMonthlyData(cookie, prepareOk) ==
  LET a == Auth(cookie) IN
  /\ Handled(IF a.ok
               THEN ReplyJson("/monthly_data",
                              IF prepareOk
                                THEN queryMonthlyAverages(readings, MONTHLY_LIMIT)
                                ELSE <<>>)
               ELSE Reply("/monthly_data", 303, "/"))
  /\ SessionAfter(a)
  /\ hist' = Seen(cookie)
  /\ UNCHANGED <<clock, sensorVars, settingsVars, timerVars, smsVars,
                 lastSmsCooldown, dbVars, sim800>>

(* /sms restarting the alert cooldown when its job is accepted *)
HandleSms_RestartsCooldown(cookie) ==
  LET a == Auth(cookie)
      s == triggerSMS(SmsNow, activePhoneNumber, TestMsg) IN
  /\ SessionAfter(a)
  /\ IF ~a.ok
       THEN /\ Handled(Reply("/sms", 303, "/"))
            /\ hist' = Seen(cookie)
            /\ UNCHANGED smsVars
       ELSE /\ Handled(Reply("/sms", 200, "Queued"))
            /\ currentSmsState' = s.state
            /\ smsTimer' = s.timer
            /\ smsQueueNum' = s.num
            /\ smsQueueMsg' = s.msg
            /\ hist' = IF s.state # currentSmsState
                 THEN [Seen(cookie) EXCEPT !.accepted = @ + 1,
                                           !.jobs = Append(@, [num |-> activePhoneNumber,
                                                               msg |-> TestMsg]),
                                           !.entered[s.state] = @ + 1]
                 ELSE Seen(cookie)
  /\ lastSmsCooldown' = IF a.ok /\ s.state # currentSmsState THEN clock ELSE lastSmsCooldown
  /\ UNCHANGED <<clock, sensorVars, settingsVars, timerVars, dbVars, sim800>>

HandleSms(cookie) ==
  LET a == Auth(cookie)
      s == triggerSMS(SmsNow, activePhoneNumber, TestMsg) IN
  /\ SessionAfter(a)
  /\ IF ~a.ok
       THEN /\ Handled(Reply("/sms", 303, "/"))
            /\ hist' = Seen(cookie)
            /\ UNCHANGED smsVars
       ELSE /\ Handled(Reply("/sms", 200, "Queued"))
            /\ currentSmsState' = s.state
            /\ smsTimer' = s.timer
            /\ smsQueueNum' = s.num
            /\ smsQueueMsg' = s.msg
            /\ hist' = IF s.state # currentSmsState
                 THEN [Seen(cookie) EXCEPT !.accepted = @ + 1,
                                           !.jobs = Append(@, [num |-> activePhoneNumber,
                                                               msg |-> TestMsg]),
                                           !.entered[s.state] = @ + 1]
                 ELSE Seen(cookie)
  /\ UNCHANGED <<clock, sensorVars, settingsVars, timerVars, lastSmsCooldown, dbVars, sim800>>

----------------------------------------------------------------------------
(* The rest of loop(): manageSMS(), the sensor block with checkAlerts(),    *)
(* and the database save.  The WiFi watchdog touches none of the state.     *)

(* the sensor block entered in every pass *)
SensorDue_EveryPass(now, last) == TRUE

SensorDue(now, last) == UGe(USub(now, last), SENSOR_INTERVAL)

SaveDue(now, last) == UGe(USub(now, last), DB_SAVE_INTERVAL)

(* the save without the SMS_IDLE test *)
SaveAllowed_Always(state) == TRUE

(* if(currentSmsState == SMS_IDLE) around the save *)
SaveAllowed(state) == state = "SMS_IDLE"

Body(tRead, hRead, ready, wRead, aRead, localTime, prepareOk, stepOk) ==
  LET m == manageSMS(SmsNow, sim800, clock)
      now == clock
      due == SensorDue(now, lastSensorMillis)
      t == IF due THEN KeepIfNaN(temperature, tRead) ELSE temperature
      h == IF due THEN KeepIfNaN(humidity, hRead) ELSE humidity
      w == IF due THEN KeepIfNotReady(weight, ready, wRead) ELSE weight
      a == IF due THEN aRead ELSE mq135_raw
      c == IF due
             THEN checkAlerts(m.sms, lastSmsCooldown, clock, t, h, w, a,
                              activePhoneNumber, lim_temp, lim_hum, lim_weight, lim_air)
             ELSE [sms |-> m.sms, last |-> lastSmsCooldown, alert |-> FALSE, msg |-> NoMsg]
      save == SaveDue(now, lastDbMillis) /\ SaveAllowed(c.sms.state)
      table == IF save
                 THEN saveToDatabase(readings, localTime, clock, t, h, w, a, prepareOk, stepOk)
                 ELSE readings
      e1 == IF m.sms.state # currentSmsState
              THEN [hist.entered EXCEPT ![m.sms.state] = @ + 1] ELSE hist.entered
      e2 == IF c.sms.state # m.sms.state
              THEN [e1 EXCEPT ![c.sms.state] = @ + 1] ELSE e1
  IN
  /\ pc = "body"
  /\ pc' = "wait"
  /\ temperature' = t /\ humidity' = h /\ weight' = w /\ mq135_raw' = a
  /\ lastSensorMillis' = IF due THEN now ELSE lastSensorMillis
  /\ currentSmsState' = c.sms.state
  /\ smsTimer' = c.sms.timer
  /\ smsQueueNum' = c.sms.num
  /\ smsQueueMsg' = c.sms.msg
  /\ sim800' = m.out
  /\ lastSmsCooldown' = c.last
  /\ lastDbMillis' = IF save THEN now ELSE lastDbMillis
  /\ readings' = table
  /\ hist' = [wrote |-> IF table # readings THEN "reading" ELSE "none",
              accepted |-> IF c.sms.state # m.sms.state THEN hist.accepted + 1
                           ELSE hist.accepted,
              entered |-> e2,
              alerts |-> IF c.alert THEN Append(hist.alerts, clock) ELSE hist.alerts,
              held |-> IF due /\ ~c.alert /\ (t > lim_temp \/ h > lim_hum
                                              \/ w > lim_weight \/ a > lim_air)
                         THEN <<clock>> ELSE hist.held,
              alertMsg |-> c.msg,
              evalSms |-> IF due THEN m.sms.state ELSE "none",
              skipped |-> IF save THEN 0
                          ELSE IF SaveDue(now, lastDbMillis) THEN hist.skipped + 1
                          ELSE hist.skipped,
              caughtUp |-> IF save THEN hist.skipped ELSE 0,
              lastGood |-> IF due
                THEN [t |-> IF tRead = NaN THEN hist.lastGood.t ELSE tRead,
                      h |-> IF hRead = NaN THEN hist.lastGood.h ELSE hRead,
                      w |-> IF ready THEN wRead ELSE hist.lastGood.w,
                      a |-> aRead]
                ELSE hist.lastGood,
              failed |-> IF due
                THEN {ch \in {"t", "h", "w"} :
                        \/ ch = "t" /\ tRead = NaN
                        \/ ch = "h" /\ hRead = NaN
                        \/ ch = "w" /\ ~ready}
                ELSE {},
              cookie |-> "",
              wasLoggedIn |-> FALSE,
              jobs |-> IF c.sms.state # m.sms.state
                         THEN Append(hist.jobs, [num |-> activePhoneNumber, msg |-> c.msg])
                         ELSE hist.jobs,
              events |-> <<>>]
  /\ UNCHANGED <<clock, settingsVars, sessionVars, settingsRow, resp, passes>>

----------------------------------------------------------------------------
(* Specifications.  Each draws the requests, the sensor reads and the time  *)
(* between passes from small sets.                                          *)

MaxPasses == 5

Cookies == {NoCookie, MarkerCookie, ClearedCookie}

(* Spec: the dispatcher with manual and evaluator triggers, settings and saves *)
Deltas == {0, 3001, 300000}
Temps == {4100}
Phones == {"+254711111111"}

Tick(deltas, max) ==
  \E d \in deltas : passes < max /\ Advance(d) /\ passes' = passes + 1

Init == InitAt(SETUP_DELAY, {NoLocalTime})

Loop ==
  \E t \in Temps : Body(t, NaN, FALSE, 0, 0, NoLocalTime, TRUE, TRUE)

Next ==
  \/ Tick(Deltas, MaxPasses)
  \/ NoRequest
  \/ HandleLogin(login_user, login_pass)
  \/ HandleSms(MarkerCookie)
  \/ \E ph \in Phones :
       HandleSaveSettings(MarkerCookie, ph, <<4000>>, <<8500>>, <<5000>>, <<40000>>, TRUE, TRUE)
  \/ Loop

Spec == Init /\ [][Next]_vars

----------------------------------------------------------------------------
(* AlertSpec: the sampler and the evaluator on their own, every channel at   *)
(* or above its limit, passes about half a cooldown apart; no request is     *)
(* made and the database cannot be written.                                  *)

MaxAlertPasses == 4
AlertDeltas == {149999, 150000}
AlertTemps == {4000, 4100}
AlertHums == {8500, 8600}
AlertWeights == {5000, 5100}
AlertAirs == {400, 401}

AlertLoop ==
  \E t \in AlertTemps, h \in AlertHums, w \in AlertWeights, a \in AlertAirs :
    Body(t, h, TRUE, w, a, NoLocalTime, FALSE, FALSE)

AlertNext ==
  \/ Tick(AlertDeltas, MaxAlertPasses)
  \/ NoRequest
  \/ AlertLoop

AlertSpec == Init /\ [][AlertNext]_vars

----------------------------------------------------------------------------
(* SampleSpec: sampling cycles with every pattern of failed reads, read back *)
(* through /data.                                                            *)

MaxSamplePasses == 4
SampleDeltas == {0, 2000}
SampleTemps == {NaN, 4100}
SampleHums == {NaN, 8500, 8600}
SampleWeights == {5100}
SampleAirs == {400, 401}

SampleLoop ==
  \E t \in SampleTemps, h \in SampleHums, ready \in BOOLEAN,
     w \in SampleWeights, a \in SampleAirs :
    Body(t, h, ready, w, a, NoLocalTime, TRUE, TRUE)

SampleNext ==
  \/ Tick(SampleDeltas, MaxSamplePasses)
  \/ NoRequest
  \/ HandleLogin(login_user, login_pass)
  \/ HandleData(MarkerCookie)
  \/ SampleLoop

SampleSpec == Init /\ [][SampleNext]_vars

----------------------------------------------------------------------------
(* AuthSpec: the session.  Logins with right and wrong credentials, logout,  *)
(* and requests with every kind of cookie, made at, just after and long      *)
(* after the expiry; the sensors stay below their limits and the database    *)
(* cannot be written.                                                        *)

MaxAuthPasses == 4
AuthDeltas == {0, 1, SESSION_TIMEOUT}

Usernames == {login_user, "guest", NoArg}
Passwords == {login_pass, "wrong", NoArg}

AuthLoop == Body(4000, 8500, TRUE, 5000, 400, NoLocalTime, FALSE, FALSE)

AuthNext ==
  \/ Tick(AuthDeltas, MaxAuthPasses)
  \/ NoRequest
  \/ \E u \in Usernames, p \in Passwords : HandleLogin(u, p)
  \/ HandleLogout
  \/ \E c \in Cookies : HandleRoot(c)
  \/ \E c \in Cookies : HandlePage("/dashboard", c)
  \/ \E c \in Cookies : HandleData(c)
  \/ AuthLoop

AuthSpec == Init /\ [][AuthNext]_vars

----------------------------------------------------------------------------
(* LiveSpec: the dispatcher over an unbounded run.  The clock is the 32-bit  *)
(* millis() counter and wraps; a pass takes either no time or half of the    *)
(* counter's range (2^31, written as its 32-bit pattern).  loop() is called  *)
(* again and again and millis() keeps growing, which is what the fairness    *)
(* conditions say.  The number of jobs and of zero-time passes with a        *)
(* pending save is bounded.                                                  *)

MaxJobs == 2
MaxSkipped == 1
LiveDeltas == {0, MinInt}

JobsLeft == hist.accepted < MaxJobs /\ Len(hist.alerts) < MaxJobs

Elapse(d) ==
  /\ d = 0 => hist.skipped < MaxSkipped
  /\ Advance(d)
  /\ UNCHANGED passes

ClockAdvances == \E d \in LiveDeltas \ {0} : Elapse(d)

LiveClient ==
  \/ NoRequest
  \/ HandleLogin(login_user, login_pass)
  \/ JobsLeft /\ HandleSms(MarkerCookie)

LiveLoop ==
  \E t \in {4000, 4100} :
    /\ t > DefaultLimTemp => JobsLeft
    /\ Body(t, 8500, TRUE, 5000, 400, NoLocalTime, FALSE, FALSE)

LiveNext ==
  \/ \E d \in LiveDeltas : Elapse(d)
  \/ LiveClient
  \/ LiveLoop

LiveSpec ==
  /\ Init
  /\ [][LiveNext]_vars
  /\ SF_vars(ClockAdvances)
  /\ WF_vars(LiveClient)
  /\ WF_vars(LiveLoop)

----------------------------------------------------------------------------
(* SettingsSpec: the settings.  Settings are saved with two phone numbers    *)
(* and with limits written with one and with two decimals, read back, and    *)
(* reloaded by a restart; storage works.                                     *)

MaxSettingsPasses == 4
MaxSettingsRows == 3
SettingsDeltas == {0, 1}
SettingsPhones == {NoArg, "+254711111111", "+254722222222"}
TempTexts == {<<4000>>, <<4027>>}
HumTexts == {<<8500>>}
WeightTexts == {<<5000>>}
AirTexts == {<<40000>>, <<>>}

SettingsLoop == Body(4000, 8500, TRUE, 5000, 400, NoLocalTime, TRUE, TRUE)

SettingsNext ==
  \/ Tick(SettingsDeltas, MaxSettingsPasses)
  \/ NoRequest
  \/ HandleLogin(login_user, login_pass)
  \/ \E c \in {NoCookie, MarkerCookie} : HandleGetSettings(c)
  \/ \E c \in {NoCookie, MarkerCookie}, ph \in SettingsPhones, lt \in TempTexts,
        lh \in HumTexts, lw \in WeightTexts, la \in AirTexts :
       HandleSaveSettings(c, ph, lt, lh, lw, la, TRUE, TRUE)
  \/ Len(readings) < MaxSettingsRows /\ Restart(NoLocalTime, TRUE, TRUE, TRUE)
  \/ SettingsLoop

SettingsSpec == Init /\ [][SettingsNext]_vars

----------------------------------------------------------------------------
(* LogSpec: the queries over the readings log.  The device boots on a log    *)
(* that earlier runs have written: saves made at a steady pace, one or       *)
(* three a day, at most one of them without wall-clock time.  It then logs   *)
(* in, saves and queries.                                                    *)

MaxRows == 32
MaxLogPasses == 2
FirstDay == 20000
LogDeltas == {0, DB_SAVE_INTERVAL}

(* The wall-clock time of the i-th save when perDay saves are made a day *)
WallClock(i, perDay) ==
  ((FirstDay + ((i - 1) \div perDay)) * SecondsPerDay) + (((i - 1) % perDay) * 3600) + 1

(* The log after len saves, the save numbered offline made without time *)
RECURSIVE OldLog(_, _, _)
OldLog(len, perDay, offline) ==
  IF len = 0 THEN <<>>
  ELSE saveToDatabase(OldLog(len - 1, perDay, offline),
                      IF len = offline THEN NoLocalTime ELSE WallClock(len, perDay),
                      UAdd(SETUP_DELAY, len * DB_SAVE_INTERVAL),
                      3000 + (100 * (len % 4)), 6000 + (50 * (len % 5)), 2000 + len,
                      300 + (len % 7), TRUE, TRUE)

OldLogs ==
  {OldLog(len, perDay, offline) :
     len \in 0..MaxRows, perDay \in {1, 3}, offline \in {0, 2, 11}}

LogInit == BootAt(SETUP_DELAY, {NoLocalTime}, OldLogs)

LogLoop ==
  \E lt \in {NoLocalTime, WallClock(MaxRows + 2, 1)} :
    Body(3900, 8000, TRUE, 4900, 390, lt, TRUE, TRUE)

LogNext ==
  \/ Tick(LogDeltas, MaxLogPasses)
  \/ NoRequest
  \/ HandleLogin(login_user, login_pass)
  \/ \E c \in {NoCookie, MarkerCookie}, ok \in BOOLEAN : HandleHistory(c, ok)
  \/ \E c \in {NoCookie, MarkerCookie}, ok \in BOOLEAN : HandleMonthlyData(c, ok)
  \/ LogLoop

LogSpec == LogInit /\ [][LogNext]_vars

----------------------------------------------------------------------------
(* Steps and observations the properties are stated with *)

BodyStep == pc = "body" /\ pc' = "wait"

ClientStep == pc = "client" /\ pc' = "body"

(* The dispatcher globals as manageSMS() leaves them in this pass *)
AfterManage == manageSMS(SmsNow, sim800, clock)

SmsNext == [state |-> currentSmsState', timer |-> smsTimer',
            num |-> smsQueueNum', msg |-> smsQueueMsg']

(* Number of AT+CMGF=1 directives written: jobs whose dialogue was started *)
Started == Cardinality({i \in 1..Len(sim800) : sim800[i].cmd = "AT+CMGF=1"})

(* A channel of the new shared reading exceeds its limit *)
BreachNext ==
  \/ temperature' > lim_temp \/ humidity' > lim_hum
  \/ weight' > lim_weight \/ mq135_raw' > lim_air

(* The message of each channel of the new shared reading that exceeds its limit *)
BreachMsgsNext ==
  {m \in {[kind |-> "High Temperature", reading |-> temperature', limit |-> lim_temp],
          [kind |-> "High Humidity", reading |-> humidity', limit |-> lim_hum],
          [kind |-> "Weight Exceeded", reading |-> weight', limit |-> lim_weight],
          [kind |-> "Poor Air Quality", reading |-> mq135_raw', limit |-> lim_air]} :
     m.reading > m.limit}

(* A pass in which the evaluator runs with a breach and the cooldown over *)
EvalWithBreach ==
  /\ BodyStep
  /\ UGe(USub(clock, lastSensorMillis), SENSOR_INTERVAL)
  /\ UGe(USub(clock, lastSmsCooldown), SMS_COOLDOWN)
  /\ BreachNext

----------------------------------------------------------------------------
(* C1: a trigger made while the dispatcher is not SMS_IDLE, by POST /sms or  *)
(* by the alert evaluator, leaves state, recipient, body and step timer as   *)
(* they were and is not counted as a job; the modem never sees more job      *)
(* dialogues than jobs were accepted.                                        *)
C1_BusyTriggerIsNoOp ==
  /\ [][/\ (ClientStep /\ resp'.route = "/sms" /\ resp'.code = 200
              /\ currentSmsState # "SMS_IDLE")
             => /\ SmsNext = SmsNow
                /\ sim800' = sim800
                /\ hist'.accepted = hist.accepted
        /\ (EvalWithBreach /\ AfterManage.sms.state # "SMS_IDLE")
             => /\ SmsNext = AfterManage.sms
                /\ sim800' = AfterManage.out
                /\ hist'.accepted = hist.accepted]_vars
  /\ [](Started <= hist.accepted)

(* POST /sms answered "Queued" while an evaluator job is in flight *)
C1_Witness ==
  /\ pc = "body" /\ resp.route = "/sms" /\ resp.code = 200
  /\ currentSmsState = "SMS_NUMBER"
  /\ smsQueueMsg.kind = "High Temperature"

----------------------------------------------------------------------------
(* C4, as claimed: every evaluation with a breach and the cooldown over      *)
(* leaves the dispatcher in SMS_MODE with the settings phone number and the  *)
(* alert's message, and sets lastSmsCooldown to the current time.            *)
C4_AlwaysEnqueued ==
  [][EvalWithBreach
       => /\ currentSmsState' = "SMS_MODE"
          /\ smsQueueNum' = activePhoneNumber
          /\ smsQueueMsg' \in BreachMsgsNext
          /\ lastSmsCooldown' = clock]_vars

(* C4, amended: such an evaluation always sets lastSmsCooldown to the        *)
(* current time; the job is enqueued (SMS_MODE, settings phone number, the   *)
(* alert's message) when the dispatcher is SMS_IDLE at that moment, and is   *)
(* dropped, leaving the dispatcher as manageSMS() left it, when it is not.   *)
C4_EnqueuedWhenIdle ==
  [][EvalWithBreach
       => /\ lastSmsCooldown' = clock
          /\ AfterManage.sms.state = "SMS_IDLE"
               => /\ currentSmsState' = "SMS_MODE"
                  /\ smsQueueNum' = activePhoneNumber
                  /\ smsQueueMsg' \in BreachMsgsNext
          /\ AfterManage.sms.state # "SMS_IDLE" => SmsNext = AfterManage.sms]_vars

(* An alert was raised in this pass while the test message was being sent *)
C4_Witness ==
  /\ pc = "wait" /\ hist.evalSms = "SMS_NUMBER"
  /\ lastSmsCooldown = clock /\ Len(hist.alerts) > 0
  /\ smsQueueMsg = TestMsg

----------------------------------------------------------------------------
(* C7, as claimed: whenever a step has written to the database (a row        *)
(* appended to readings or the settings row updated) the dispatcher is       *)
(* SMS_IDLE.                                                                 *)
C7_NoWriteWhileBusy ==
  hist.wrote # "none" => currentSmsState = "SMS_IDLE"

----------------------------------------------------------------------------
(* C8: in a pass where the save is due and the dispatcher is not SMS_IDLE    *)
(* nothing is appended and lastDbMillis stays; in a pass where it is due and *)
(* the dispatcher is SMS_IDLE exactly one row is appended, holding the       *)
(* shared reading of that pass, whatever time has gone by since the last     *)
(* save; a pass where it is not due appends nothing.                         *)
C8_SkippedNotQueued ==
  [][BodyStep =>
       IF UGe(USub(clock, lastDbMillis), DB_SAVE_INTERVAL)
         THEN IF currentSmsState' # "SMS_IDLE"
                THEN readings' = readings /\ lastDbMillis' = lastDbMillis
                ELSE /\ Len(readings') = Len(readings) + 1
                     /\ SubSeq(readings', 1, Len(readings)) = readings
                     /\ LET row == readings'[Len(readings')]
                        IN  /\ row.temp = temperature' /\ row.hum = humidity'
                            /\ row.weight = weight' /\ row.mq = mq135_raw'
                     /\ lastDbMillis' = clock
         ELSE readings' = readings /\ lastDbMillis' = lastDbMillis]_vars

(* A row was appended after the save had been skipped in two passes, ten     *)
(* save intervals after it fell due                                          *)
C8_Witness ==
  /\ pc = "wait" /\ hist.wrote = "reading" /\ hist.caughtUp >= 2
  /\ lastDbMillis >= 10 * DB_SAVE_INTERVAL

----------------------------------------------------------------------------
(* C3: any two alerts raised by checkAlerts() are at least SMS_COOLDOWN      *)
(* apart, whichever channels breach in between: an evaluation that finds a   *)
(* breach inside the cooldown raises no alert.                               *)
C3_AlertsCooldownApart ==
  /\ \A i, j \in 1..Len(hist.alerts) :
       i < j => UGe(USub(hist.alerts[j], hist.alerts[i]), SMS_COOLDOWN)
  /\ \A i \in 1..Len(hist.alerts), k \in 1..Len(hist.held) :
       hist.alerts[i] # hist.held[k]

(* Two alerts exactly one cooldown apart, with a breach evaluated in between *)
(* that raised none                                                          *)
C3_Witness ==
  /\ Len(hist.alerts) = 2
  /\ USub(hist.alerts[2], hist.alerts[1]) = SMS_COOLDOWN
  /\ hist.held # <<>>
  /\ ULt(hist.alerts[1], hist.held[1]) /\ ULt(hist.held[1], hist.alerts[2])

----------------------------------------------------------------------------
(* C5: an evaluation outside the cooldown raises the alert of the first      *)
(* channel, in the order temperature, humidity, weight, air quality, whose   *)
(* reading is strictly above its limit, and only that one; when no reading   *)
(* is above its limit it raises none and leaves the cooldown timer and the   *)
(* dispatcher alone.                                                         *)
ChannelsNext ==
  <<[kind |-> "High Temperature", reading |-> temperature', limit |-> lim_temp],
    [kind |-> "High Humidity", reading |-> humidity', limit |-> lim_hum],
    [kind |-> "Weight Exceeded", reading |-> weight', limit |-> lim_weight],
    [kind |-> "Poor Air Quality", reading |-> mq135_raw', limit |-> lim_air]>>

BreachedNext == {i \in 1..4 : ChannelsNext[i].reading > ChannelsNext[i].limit}

C5_FirstBreachOnly ==
  [][(/\ BodyStep
      /\ UGe(USub(clock, lastSensorMillis), SENSOR_INTERVAL)
      /\ UGe(USub(clock, lastSmsCooldown), SMS_COOLDOWN))
       => IF BreachedNext = {}
            THEN /\ hist'.alertMsg = NoMsg
                 /\ hist'.alerts = hist.alerts
                 /\ lastSmsCooldown' = lastSmsCooldown
                 /\ SmsNext = AfterManage.sms
            ELSE LET first == CHOOSE i \in BreachedNext : \A k \in BreachedNext : i <= k
                 IN  /\ hist'.alertMsg = ChannelsNext[first]
                     /\ Len(hist'.alerts) = Len(hist.alerts) + 1
                     /\ AfterManage.sms.state = "SMS_IDLE"
                          => smsQueueMsg' = ChannelsNext[first]]_vars

(* The humidity alert was raised while weight and air quality breach too *)
C5_Witness ==
  /\ pc = "wait" /\ hist.alertMsg.kind = "High Humidity"
  /\ smsQueueMsg = hist.alertMsg
  /\ temperature = lim_temp /\ humidity > lim_hum
  /\ weight > lim_weight /\ mq135_raw > lim_air

----------------------------------------------------------------------------
(* C6: after every sampling cycle each channel of the shared reading holds   *)
(* the value of its last successful read (its initial value before the       *)
(* first), whichever reads failed in between; NaN is never in the shared     *)
(* reading nor in a /data response.                                          *)
C6_FailedReadKeepsLastGood ==
  /\ temperature = hist.lastGood.t
  /\ humidity = hist.lastGood.h
  /\ weight = hist.lastGood.w
  /\ mq135_raw = hist.lastGood.a
  /\ temperature # NaN /\ humidity # NaN
  /\ (resp.route = "/data" /\ resp.code = 200)
       => \A i \in 1..Len(resp.json) : resp.json[i] # NaN

(* The temperature read failed in a cycle that updated humidity: /data had   *)
(* shown 41.0 and 85.0 before it, the shared reading is 41.0 and 86.0 after  *)
C6_Witness ==
  /\ pc = "wait" /\ hist.failed = {"t", "w"}
  /\ resp.route = "/data" /\ resp.code = 200
  /\ resp.json[1] = 4100 /\ resp.json[2] = 8500
  /\ temperature = 4100 /\ humidity = 8600

----------------------------------------------------------------------------
(* Routes whose handler the README and the spec mark as requiring a session *)
Privileged == {"/logout", "/dashboard", "/report", "/data", "/get_settings",
               "/save_settings", "/sms", "/history", "/monthly_data"}

(* The last request was let in by is_authenticated() *)
LetIn(r) ==
  \/ r.route = "/" /\ r.code = 303
  \/ r.route \in Privileged \ {"/logout"} /\ r.code \in {200, 400}
  \/ r.route = "/save_settings" /\ r.code = 303 /\ r.body = "/dashboard"

(* C9: a privileged request made with the flag set and millis() past         *)
(* session_expiry is answered 303 and leaves the flag cleared, whatever      *)
(* cookie it carries; with the flag cleared every privileged request is      *)
(* answered 303, and only a successful POST /login sets the flag again.      *)
C9_ExpiredSessionRejected ==
  [][ClientStep =>
       /\ (resp'.route \in Privileged /\ (~is_logged_in \/ UGt(clock, session_expiry)))
            => /\ resp'.code = 303
               /\ ~LetIn(resp')
               /\ ~is_logged_in'
       /\ (~is_logged_in /\ is_logged_in')
            => resp'.route = "/login" /\ resp'.code = 303]_vars

(* A request carrying the marker cookie, made one millisecond after the      *)
(* expiry of a live session, was redirected and cleared the flag             *)
C9_Witness ==
  /\ pc = "body" /\ resp.route = "/dashboard" /\ resp.code = 303
  /\ hist.cookie = MarkerCookie /\ hist.wasLoggedIn /\ ~is_logged_in
  /\ clock = UAdd(session_expiry, 1)

----------------------------------------------------------------------------
(* C10: a request is let in by is_authenticated() exactly when the flag is   *)
(* set, millis() is not past session_expiry and the cookie holds the marker; *)
(* it then sets session_expiry to millis() + SESSION_TIMEOUT, and a request  *)
(* that is not let in leaves session_expiry as it was.                       *)
C10_SlidingExpiry ==
  [][(ClientStep /\ resp'.route \in ({"/"} \cup Privileged) \ {"/logout"}) =>
       /\ LetIn(resp') <=> /\ is_logged_in
                           /\ ~UGt(clock, session_expiry)
                           /\ hist'.cookie = MarkerCookie
       /\ IF LetIn(resp')
            THEN session_expiry' = UAdd(clock, SESSION_TIMEOUT)
            ELSE session_expiry' = session_expiry]_vars

(* A request at the very millisecond of expiry was served and moved the      *)
(* expiry a full timeout ahead                                               *)
C10_Witness ==
  /\ pc = "body" /\ resp.route = "/data" /\ resp.code = 200
  /\ clock = UAdd(SETUP_DELAY, SESSION_TIMEOUT)
  /\ session_expiry = UAdd(clock, SESSION_TIMEOUT)

----------------------------------------------------------------------------
(* Position of a dispatcher state in the dialogue; SMS_IDLE is outside it *)
StepOf(state) ==
  CASE state = "SMS_MODE" -> 1
    [] state = "SMS_NUMBER" -> 2
    [] state = "SMS_CONTENT" -> 3
    [] state = "SMS_WAIT" -> 4
    [] OTHER -> 0

(* Each finished job entered every state once, and the job in flight, if     *)
(* any, has entered once each state up to the current one                    *)
OneJobInFlight ==
  /\ hist.entered["SMS_MODE"] = hist.accepted
  /\ hist.accepted - hist.entered["SMS_IDLE"] =
       (IF currentSmsState = "SMS_IDLE" THEN 0 ELSE 1)
  /\ \A s \in SmsStates \ {"SMS_IDLE"} :
       hist.entered[s] = hist.entered["SMS_IDLE"]
                           + (IF StepOf(s) <= StepOf(currentSmsState) THEN 1 ELSE 0)

(* C2: every accepted job enters SMS_MODE, SMS_NUMBER, SMS_CONTENT and       *)
(* SMS_WAIT exactly once each, at most one job is in flight, the jobs        *)
(* accepted are the jobs that reached SMS_WAIT once the dispatcher is idle,  *)
(* and while loop() keeps running and millis() keeps growing a busy          *)
(* dispatcher always returns to SMS_IDLE.                                    *)
C2_JobRunsToIdle ==
  /\ []OneJobInFlight
  /\ [](currentSmsState = "SMS_IDLE" => hist.entered["SMS_WAIT"] = hist.accepted)
  /\ (currentSmsState # "SMS_IDLE") ~> (currentSmsState = "SMS_IDLE")

(* Two jobs ran to the end, one raised by the evaluator and one by /sms *)
C2_Witness ==
  /\ currentSmsState = "SMS_IDLE"
  /\ hist.accepted = 2 /\ hist.entered["SMS_WAIT"] = 2 /\ hist.entered["SMS_IDLE"] = 2
  /\ \E i, j \in 1..Len(sim800) :
       /\ sim800[i].cmd = "26" /\ sim800[i].msg = TestMsg
       /\ sim800[j].cmd = "26" /\ sim800[j].msg.kind = "High Temperature"

----------------------------------------------------------------------------
(* The request being handled comes with a valid session: the flag is set,    *)
(* millis() is not past the expiry and the cookie holds the marker           *)
ValidSession(cookie) ==
  is_logged_in /\ ~UGt(clock, session_expiry) /\ cookie = MarkerCookie

(* C11: a request to a route that requires authentication, made without a    *)
(* valid session, is answered 303 and leaves the settings, the settings      *)
(* row, the dispatcher, the readings log and the session flag and expiry     *)
(* unchanged.                                                                *)
C11_UnauthenticatedNoEffect ==
  [][(ClientStep /\ resp'.route \in Privileged /\ ~ValidSession(hist'.cookie))
       => /\ resp'.code = 303
          /\ UNCHANGED <<settingsVars, smsVars, dbVars, sessionVars>>]_vars

----------------------------------------------------------------------------
(* C12: POST /login with the matching username and password answers 303,     *)
(* sets the flag and sets the expiry to millis() + SESSION_TIMEOUT; with a   *)
(* missing or non-matching username or password it answers 401 and leaves    *)
(* the flag and the expiry as they were.                                     *)
C12_LoginSetsOrKeepsSession ==
  [][\A u \in Usernames, p \in Passwords :
       HandleLogin(u, p) =>
         IF u = login_user /\ p = login_pass
           THEN /\ resp'.code = 303
                /\ is_logged_in'
                /\ session_expiry' = UAdd(clock, SESSION_TIMEOUT)
           ELSE /\ resp'.code = 401
                /\ UNCHANGED sessionVars]_vars

(* A failed login one millisecond into a live session: the session is still  *)
(* there with the expiry the login gave it                                   *)
C12_Witness ==
  /\ pc = "body" /\ resp.route = "/login" /\ resp.code = 401
  /\ hist.wasLoggedIn /\ is_logged_in
  /\ clock = UAdd(SETUP_DELAY, 1)
  /\ session_expiry = UAdd(SETUP_DELAY, SESSION_TIMEOUT)

----------------------------------------------------------------------------
(* The in-memory settings, as a record shaped like the settings row *)
SettingsNow == [phone |-> activePhoneNumber, lim_t |-> lim_temp, lim_h |-> lim_hum,
                lim_w |-> lim_weight, lim_a |-> lim_air]

SettingsNext1 == [phone |-> activePhoneNumber', lim_t |-> lim_temp', lim_h |-> lim_hum',
                  lim_w |-> lim_weight', lim_a |-> lim_air']

(* The values a save_settings request submits; the air limit is an integer *)
Submitted(ph, lt, lh, lw, la) ==
  [phone |-> ph, lim_t |-> lt[1], lim_h |-> lh[1], lim_w |-> lw[1],
   lim_a |-> la[1] \div 100]

(* C13: an authenticated save_settings carrying phone and limits leaves the  *)
(* submitted values in memory and in the settings row; get_settings returns  *)
(* the values of the settings row, which are the last submitted ones; a      *)
(* restart leaves the values of the settings row in memory.                  *)
C13_SettingsRoundTrip ==
  [][/\ \A ph \in SettingsPhones \ {NoArg}, lt \in TempTexts, lh \in HumTexts,
          lw \in WeightTexts, la \in AirTexts \ {<<>>} :
          (/\ HandleSaveSettings(MarkerCookie, ph, lt, lh, lw, la, TRUE, TRUE)
           /\ resp'.body = "/dashboard")
            => /\ SettingsNext1 = Submitted(ph, lt, lh, lw, la)
               /\ settingsRow' = Submitted(ph, lt, lh, lw, la)
     /\ (ClientStep /\ resp'.route = "/get_settings" /\ resp'.code = 200)
          => resp'.json = <<settingsRow.phone, settingsRow.lim_t, settingsRow.lim_h,
                            settingsRow.lim_w, settingsRow.lim_a>>
     /\ (pc = "wait" /\ pc' = "wait" /\ hist' = NoHist)
          => SettingsNext1 = settingsRow]_vars

----------------------------------------------------------------------------
(* C14: when its query runs, /history returns min(L, 10) rows of a log of    *)
(* length L, and they are the last rows of the log, last appended first.     *)
C14_HistoryLastTen ==
  [][(HandleHistory(MarkerCookie, TRUE) /\ resp'.code = 200)
       => LET L == Len(readings)
          IN  /\ Len(resp'.json) = (IF L < 10 THEN L ELSE 10)
              /\ \A i \in 1..Len(resp'.json) : resp'.json[i] = readings[(L - i) + 1]]_vars

(* Twelve rows in the log: /history answered the last ten, the twelfth first *)
C14_Witness ==
  /\ pc = "body" /\ resp.route = "/history" /\ resp.code = 200
  /\ Len(readings) = 12 /\ Len(resp.json) = 10
  /\ resp.json[1] = readings[12] /\ resp.json[10] = readings[3]
  /\ \A i, j \in 1..12 : i # j => readings[i] # readings[j]

----------------------------------------------------------------------------
(* The rows of the log that carry a date, by position, and their dates *)
DatedRows == {i \in 1..Len(readings) : readings[i].timestamp.prefix # "Offline-"}

Dates == {readings[i].timestamp.day : i \in DatedRows}

RowsOn(date) == {i \in DatedRows : readings[i].timestamp.day = date}

RECURSIVE Total(_, _)
Total(rows, col) ==
  IF rows = {} THEN 0
  ELSE LET i == CHOOSE x \in rows : TRUE
       IN  readings[i][col] + Total(rows \ {i}, col)

(* C15: when its query runs, /monthly_data returns one bucket for each of    *)
(* the latest 30 dates found in rows that are not offline-marked, latest     *)
(* first, and the figures of a bucket are the averages over exactly the      *)
(* dated rows of its date; offline-marked rows make no bucket and enter no   *)
(* average.                                                                  *)
C15_MonthlyBuckets ==
  [][(HandleMonthlyData(MarkerCookie, TRUE) /\ resp'.code = 200)
       => LET out == resp'.json
          IN  /\ Len(out) = (IF Cardinality(Dates) < 30 THEN Cardinality(Dates) ELSE 30)
              /\ \A k \in 1..Len(out) :
                   /\ out[k].day.prefix = "" /\ out[k].day.day \in Dates
                   /\ \A d \in Dates :
                        (\A j \in 1..Len(out) : out[j].day.day # d) => d < out[k].day.day
                   /\ k > 1 => out[k].day.day < out[k - 1].day.day
                   /\ LET rows == RowsOn(out[k].day.day)
                          n == Cardinality(rows)
                      IN  /\ out[k].avg_temp = FormatAvg(Total(rows, "temp"), n)
                          /\ out[k].avg_hum = FormatAvg(Total(rows, "hum"), n)
                          /\ out[k].avg_weight = FormatAvg(Total(rows, "weight"), n)
                          /\ out[k].avg_mq = Total(rows, "mq") \div n]_vars

(* A log with 31 dates and offline-marked rows: /monthly_data answered 30    *)
(* buckets, the earliest date left out                                       *)
C15_Witness ==
  /\ pc = "body" /\ resp.route = "/monthly_data" /\ resp.code = 200
  /\ Cardinality(Dates) = 31 /\ Len(resp.json) = 30
  /\ \E i \in 2..Len(readings) : i \notin DatedRows /\ (i - 1) \in DatedRows
  /\ \A k \in 1..30 : resp.json[k].day.day > FirstDay

(* Three dated rows a day and an offline-marked one among them: the bucket   *)
(* of that day averages the two dated rows                                   *)
C15_WitnessAverage ==
  /\ pc = "body" /\ resp.route = "/monthly_data" /\ resp.code = 200
  /\ Len(resp.json) > 1
  /\ Cardinality(RowsOn(FirstDay)) = 2
  /\ 2 \notin DatedRows

----------------------------------------------------------------------------
(* A pass in which the evaluator runs with a breach *)
BreachEvaluated ==
  /\ BodyStep
  /\ UGe(USub(clock, lastSensorMillis), SENSOR_INTERVAL)
  /\ BreachNext

(* C16, as claimed: while no alert has been raised yet, the first evaluation *)
(* of a breaching reading creates a notification job, and an evaluation of   *)
(* a breaching reading less than a cooldown after an alert creates none.     *)
C16_FirstBreachCreatesJob ==
  [][BreachEvaluated
       => /\ (hist.alerts = <<>> /\ AfterManage.sms.state = "SMS_IDLE")
               => /\ hist'.alerts = <<clock>>
                  /\ currentSmsState' = "SMS_MODE"
                  /\ smsQueueMsg' \in BreachMsgsNext
          /\ (hist.alerts # <<>>
                /\ ULt(USub(clock, hist.alerts[Len(hist.alerts)]), SMS_COOLDOWN))
               => /\ hist'.alerts = hist.alerts
                  /\ SmsNext = AfterManage.sms]_vars

----------------------------------------------------------------------------
(* C17, as claimed: a POST /sms with a valid session answers 200 "Queued"    *)
(* and leaves in the dispatcher a new job holding the test message for the   *)
(* settings phone number; whenever the answer is "Queued", the job of that   *)
(* request is in the dispatcher.                                             *)
C17_QueuedMeansEnqueued ==
  [][\A c \in Cookies :
       (HandleSms(c) /\ ValidSession(c))
         => /\ resp'.code = 200 /\ resp'.body = "Queued"
            /\ currentSmsState' = "SMS_MODE"
            /\ smsQueueNum' = activePhoneNumber
            /\ smsQueueMsg' = TestMsg
            /\ hist'.accepted = hist.accepted + 1]_vars

----------------------------------------------------------------------------
(* StoreSpec: every operation of the program, restarts included, with the    *)
(* database accepting or refusing each statement.                            *)

MaxStorePasses == 3
MaxStoreRows == 3
StoreDeltas == {0, DB_SAVE_INTERVAL}

StoreLoop ==
  \E lt \in {NoLocalTime, WallClock(1, 1)}, ok \in BOOLEAN :
    Body(4100, 8000, TRUE, 4900, 390, lt, ok, ok)

StoreRequest ==
  \E c \in {NoCookie, MarkerCookie} :
    \/ HandleRoot(c)
    \/ HandlePage("/dashboard", c)
    \/ HandleData(c)
    \/ HandleGetSettings(c)
    \/ \E ok \in BOOLEAN :
         HandleSaveSettings(c, "+254722222222", <<4200>>, <<8500>>, <<5000>>, <<40000>>, ok, ok)
    \/ HandleSms(c)
    \/ \E ok \in BOOLEAN : HandleHistory(c, ok)
    \/ \E ok \in BOOLEAN : HandleMonthlyData(c, ok)

StoreNext ==
  \/ Tick(StoreDeltas, MaxStorePasses)
  \/ NoRequest
  \/ HandleLogin(login_user, login_pass)
  \/ HandleLogout
  \/ StoreRequest
  \/ Len(readings) < MaxStoreRows /\ \E ok \in BOOLEAN : Restart(NoLocalTime, ok, ok, ok)
  \/ StoreLoop

StoreSpec == Init /\ [][StoreNext]_vars

----------------------------------------------------------------------------
(* C18: the readings log is append-only: whatever step the program takes,    *)
(* the rows present before it are present after it, unchanged and in the     *)
(* same order, and any new row comes after them.                             *)
C18_LogAppendOnly ==
  [][/\ Len(readings') >= Len(readings)
     /\ SubSeq(readings', 1, Len(readings)) = readings]_vars

(* The log holds the boot rows of two runs and a row saved by loop() *)
C18_Witness ==
  /\ pc = "wait" /\ hist.wrote = "reading"
  /\ Len(readings) >= 3
  /\ readings[Len(readings)].temp = 4100
  /\ readings[1].temp = 0

----------------------------------------------------------------------------
(* The state that follows a dispatcher state in the cycle *)
Following(state) ==
  CASE state = "SMS_IDLE" -> "SMS_MODE"
    [] state = "SMS_MODE" -> "SMS_NUMBER"
    [] state = "SMS_NUMBER" -> "SMS_CONTENT"
    [] state = "SMS_CONTENT" -> "SMS_WAIT"
    [] OTHER -> "SMS_IDLE"

(* C19: the dispatcher state changes only along SMS_IDLE, SMS_MODE,          *)
(* SMS_NUMBER, SMS_CONTENT, SMS_WAIT, SMS_IDLE.  One call of manageSMS()     *)
(* keeps the state or moves it to the following one, and never moves it out  *)
(* of SMS_IDLE; a trigger, by the evaluator in the same pass or by /sms,     *)
(* keeps it or moves it from SMS_IDLE to SMS_MODE; nothing else changes it.  *)
C19_TransitionsInOrder ==
  [][/\ BodyStep
          => /\ AfterManage.sms.state \in {currentSmsState, Following(currentSmsState)}
             /\ currentSmsState = "SMS_IDLE" => AfterManage.sms.state = "SMS_IDLE"
             /\ \/ currentSmsState' = AfterManage.sms.state
                \/ /\ AfterManage.sms.state = "SMS_IDLE"
                   /\ currentSmsState' = "SMS_MODE"
                   /\ hist'.alerts # hist.alerts
     /\ ~BodyStep
          => \/ currentSmsState' = currentSmsState
             \/ /\ currentSmsState = "SMS_IDLE" /\ currentSmsState' = "SMS_MODE"
                /\ resp'.route = "/sms" /\ resp'.code = 200]_vars

(* A job went through every state and, in the pass where its SMS_WAIT ended, *)
(* the evaluator queued the next one                                         *)
C19_Witness ==
  /\ pc = "wait" /\ currentSmsState = "SMS_MODE"
  /\ hist.entered = [s \in SmsStates |-> IF s = "SMS_MODE" THEN 2 ELSE 1]
  /\ hist.alerts = <<clock>>
  /\ smsQueueMsg.kind = "High Temperature"

----------------------------------------------------------------------------
(* StepSpec: a test message sent with the passes of loop() a step delay      *)
(* apart, one millisecond less, or one millisecond apart.                    *)

MaxStepPasses == 6
StepDeltas == {1, 199, 200}

StepLoop == Body(3900, 8000, TRUE, 4900, 390, NoLocalTime, FALSE, FALSE)

StepNext ==
  \/ Tick(StepDeltas, MaxStepPasses)
  \/ NoRequest
  \/ HandleLogin(login_user, login_pass)
  \/ HandleSms(MarkerCookie)
  \/ StepLoop

StepSpec == Init /\ [][StepNext]_vars

----------------------------------------------------------------------------
(* The directive written when the dispatcher leaves a state *)
DirectiveOf(state) ==
  IF state = "SMS_NUMBER"
    THEN [cmd |-> "AT+CMGS=", arg |-> smsQueueNum, msg |-> NoMsg]
    ELSE [cmd |-> "26", arg |-> NoCookie, msg |-> smsQueueMsg]

(* The pass moved the dispatcher on: next state, directive written, timer    *)
(* set to the current time                                                   *)
StepTaken ==
  /\ currentSmsState' = Following(currentSmsState)
  /\ smsTimer' = clock
  /\ sim800' = Append(sim800, DirectiveOf(currentSmsState))

StepHeld ==
  /\ currentSmsState' = currentSmsState
  /\ smsTimer' = smsTimer
  /\ sim800' = sim800

InStepState == BodyStep /\ currentSmsState \in {"SMS_NUMBER", "SMS_CONTENT"}

(* C20, as claimed: in SMS_NUMBER and in SMS_CONTENT a pass moves the        *)
(* dispatcher on exactly when at least 200 ms have gone by since the step    *)
(* timer was set, so at 200 ms it moves on; before that it changes nothing.  *)
C20_AdvanceAtStepDelay ==
  [][InStepState
       => IF UGe(USub(clock, smsTimer), SMS_STEP_DELAY) THEN StepTaken ELSE StepHeld]_vars

(* C20, amended: in SMS_NUMBER and in SMS_CONTENT a pass moves the           *)
(* dispatcher on exactly when more than 200 ms have gone by since the step   *)
(* timer was set; at 200 ms or less it leaves state, timer and modem output  *)
(* unchanged.                                                                *)
C20_AdvanceAfterStepDelay ==
  [][InStepState
       => IF UGt(USub(clock, smsTimer), SMS_STEP_DELAY) THEN StepTaken ELSE StepHeld]_vars

(* A pass exactly 200 ms after the dispatcher entered SMS_CONTENT with the   *)
(* test message has left it there, the recipient directive the last written  *)
C20_Witness ==
  /\ pc = "wait" /\ currentSmsState = "SMS_CONTENT"
  /\ USub(clock, smsTimer) = SMS_STEP_DELAY
  /\ Len(sim800) = 3 /\ sim800[3].cmd = "AT+CMGS="
  /\ smsQueueMsg = TestMsg

----------------------------------------------------------------------------
(* WaitSpec: a test message sent with the passes of loop() a millisecond,    *)
(* a little over a step delay, or the wait delay apart.                      *)

MaxWaitPasses == 6
WaitDeltas == {1, 201, SMS_WAIT_DELAY}

WaitLoop == Body(3900, 8000, TRUE, 4900, 390, NoLocalTime, FALSE, FALSE)

WaitNext ==
  \/ Tick(WaitDeltas, MaxWaitPasses)
  \/ NoRequest
  \/ HandleLogin(login_user, login_pass)
  \/ HandleSms(MarkerCookie)
  \/ WaitLoop

WaitSpec == Init /\ [][WaitNext]_vars

----------------------------------------------------------------------------
InWaitState == BodyStep /\ currentSmsState = "SMS_WAIT"

(* The pass ended the job: SMS_IDLE, nothing written to the modem *)
WaitOver ==
  /\ currentSmsState' = "SMS_IDLE"
  /\ smsTimer' = smsTimer
  /\ sim800' = sim800

(* C21, as claimed: in SMS_WAIT a pass returns the dispatcher to SMS_IDLE    *)
(* exactly when at least 3000 ms have gone by since the timer was set on     *)
(* entering SMS_WAIT, whatever the modem has answered.                       *)
C21_IdleAtWaitDelay ==
  [][InWaitState
       => IF UGe(USub(clock, smsTimer), SMS_WAIT_DELAY) THEN WaitOver ELSE StepHeld]_vars

(* C21, amended: in SMS_WAIT a pass returns the dispatcher to SMS_IDLE       *)
(* exactly when more than 3000 ms have gone by since the timer was set on    *)
(* entering SMS_WAIT; at 3000 ms or less it leaves the dispatcher as it is.  *)
(* Nothing but the clock and the timer enters the decision.                  *)
C21_IdleAfterWaitDelay ==
  [][InWaitState
       => IF UGt(USub(clock, smsTimer), SMS_WAIT_DELAY) THEN WaitOver ELSE StepHeld]_vars

(* A pass exactly 3000 ms after the dispatcher entered SMS_WAIT has left it  *)
(* there, the body of the test message written                               *)
C21_Witness ==
  /\ pc = "wait" /\ currentSmsState = "SMS_WAIT"
  /\ USub(clock, smsTimer) = SMS_WAIT_DELAY
  /\ Len(sim800) = 4 /\ sim800[4].cmd = "26" /\ sim800[4].msg = TestMsg

----------------------------------------------------------------------------
(* The k-th thing the dispatcher writes to the modem for a job *)
DirectiveNo(job, k) ==
  CASE k = 1 -> [cmd |-> "AT+CMGF=1", arg |-> NoCookie, msg |-> NoMsg]
    [] k = 2 -> [cmd |-> "AT+CMGS=", arg |-> job.num, msg |-> NoMsg]
    [] OTHER -> [cmd |-> "26", arg |-> NoCookie, msg |-> job.msg]

(* How many of its three writes the j-th accepted job has made: all of them  *)
(* unless it is the job in flight                                            *)
WrittenBy(j) ==
  IF j < Len(hist.jobs) \/ currentSmsState = "SMS_IDLE" THEN 3
  ELSE StepOf(currentSmsState) - 1

(* C22: after the AT of initSIM800(), what the modem port has received is,   *)
(* job after job in the order of acceptance, AT+CMGF=1, then AT+CMGS= with   *)
(* the recipient the job was accepted with, then the body the job was        *)
(* accepted with and byte 26; the job in flight has written the first of     *)
(* these up to its state, no job has written anything else, and no write of  *)
(* a job comes before the last write of the job accepted before it.          *)
C22_DialoguePerJob ==
  LET n == Len(hist.jobs)
  IN  /\ Len(sim800) = 1 + (IF n = 0 THEN 0 ELSE (3 * (n - 1)) + WrittenBy(n))
      /\ \A j \in 1..n : \A k \in 1..WrittenBy(j) :
           sim800[1 + (3 * (j - 1)) + k] = DirectiveNo(hist.jobs[j], k)

(* The alert accepted under the first phone number was written in full to    *)
(* that number; the settings were changed meanwhile and the next alert,      *)
(* accepted for the new number, has written nothing yet                      *)
C22_Witness ==
  /\ Len(hist.jobs) = 2 /\ currentSmsState = "SMS_MODE"
  /\ hist.jobs[1].num # hist.jobs[2].num
  /\ Len(sim800) = 4
  /\ sim800[3].arg = hist.jobs[1].num
  /\ sim800[4].cmd = "26" /\ sim800[4].msg.kind = "High Temperature"

----------------------------------------------------------------------------
(* CadenceSpec: passes just under a sensor interval, a sensor interval and a *)
(* cooldown apart, a temperature that changes from sample to sample, and     *)
(* /data read in between.                                                    *)

MaxCadencePasses == 4
CadenceDeltas == {1999, SENSOR_INTERVAL, SMS_COOLDOWN}
CadenceTemps == {3900, 4100, 4200}

CadenceLoop ==
  \E t \in CadenceTemps : Body(t, 8000, TRUE, 4900, 390, NoLocalTime, FALSE, FALSE)

CadenceNext ==
  \/ Tick(CadenceDeltas, MaxCadencePasses)
  \/ NoRequest
  \/ HandleLogin(login_user, login_pass)
  \/ (\E c \in {NoCookie, MarkerCookie} : HandleData(c))
  \/ CadenceLoop

CadenceSpec == Init /\ [][CadenceNext]_vars

----------------------------------------------------------------------------
(* C23: the evaluator runs in exactly the passes in which the sampler runs,  *)
(* on the shared reading as that pass has just updated it: such a pass       *)
(* raises an alert exactly when the cooldown is over and the new reading     *)
(* breaches, with a message built from the new reading.  A pass that does    *)
(* not sample leaves the shared reading and the alert state alone, and so    *)
(* does every step that is not the body of a pass, the handlers among them.  *)
(* The sampler runs only when at least 2000 ms have gone by since it last    *)
(* ran.                                                                      *)
C23_EvaluatedWithSample ==
  [][/\ BodyStep
          => IF UGe(USub(clock, lastSensorMillis), SENSOR_INTERVAL)
               THEN /\ lastSensorMillis' = clock
                    /\ hist'.evalSms # "none"
                    /\ (hist'.alerts # hist.alerts)
                         <=> (UGe(USub(clock, lastSmsCooldown), SMS_COOLDOWN) /\ BreachNext)
                    /\ hist'.alerts # hist.alerts
                         => /\ hist'.alerts = Append(hist.alerts, clock)
                            /\ hist'.alertMsg \in BreachMsgsNext
                            /\ lastSmsCooldown' = clock
               ELSE /\ UNCHANGED <<sensorVars, lastSensorMillis, lastSmsCooldown>>
                    /\ hist'.evalSms = "none"
                    /\ hist'.alerts = hist.alerts
     /\ ~BodyStep
          => /\ UNCHANGED <<sensorVars, lastSensorMillis, lastSmsCooldown>>
             /\ hist'.alerts = hist.alerts]_vars

(* /data answered 39.00 at the start of the pass; the same pass sampled 42.0 *)
(* and raised the alert on 42.0                                              *)
C23_Witness ==
  /\ pc = "wait" /\ resp.route = "/data" /\ resp.code = 200
  /\ resp.json[1] = 3900
  /\ temperature = 4200 /\ lastSensorMillis = clock
  /\ hist.alerts = <<clock>> /\ hist.alertMsg.reading = 4200

----------------------------------------------------------------------------
----------------------------------------------------------------------------
(* SaveSpec: the periodic save, with and without wall-clock time, the        *)
(* INSERT failing at prepare or at step, and a test message in between.      *)

MaxSavePasses == 4
SaveDeltas == {3001, DB_SAVE_INTERVAL}
SaveTemps == {3900}
SaveTimes == {NoLocalTime, WallClock(1, 1)}

SaveLoop ==
  \E t \in SaveTemps, lt \in SaveTimes, prepareOk \in BOOLEAN, stepOk \in BOOLEAN :
    Body(t, 8000, TRUE, 4900, 390, lt, prepareOk, stepOk)

SaveNext ==
  \/ Tick(SaveDeltas, MaxSavePasses)
  \/ NoRequest
  \/ HandleLogin(login_user, login_pass)
  \/ HandleSms(MarkerCookie)
  \/ SaveLoop

SaveSpec == Init /\ [][SaveNext]_vars

----------------------------------------------------------------------------
(* The dispatcher as the evaluator leaves it in this pass, given the shared  *)
(* reading the pass has produced                                             *)
AfterEvaluation ==
  IF UGe(USub(clock, lastSensorMillis), SENSOR_INTERVAL)
    THEN checkAlerts(AfterManage.sms, lastSmsCooldown, clock,
                     temperature', humidity', weight', mq135_raw',
                     activePhoneNumber, lim_temp, lim_hum, lim_weight, lim_air).sms
    ELSE AfterManage.sms

(* C25: a pass attempts the save when it is due and the dispatcher is        *)
(* SMS_IDLE.  An attempt that fails, at prepare or at step, leaves the log   *)
(* unchanged and still restarts the save interval, so the next attempt comes *)
(* a full interval later; an attempt that does not fail appends one row,     *)
(* whatever happened to the attempts before it.  Failing or not, the pass    *)
(* ends, samples as it would, and leaves the dispatcher and the modem output *)
(* as manageSMS() and the evaluator made them.                               *)
C25_FailedSaveNoRetry ==
  [][\A t \in SaveTemps, lt \in SaveTimes, prepareOk \in BOOLEAN, stepOk \in BOOLEAN :
       Body(t, 8000, TRUE, 4900, 390, lt, prepareOk, stepOk)
         => LET attempted == /\ UGe(USub(clock, lastDbMillis), DB_SAVE_INTERVAL)
                             /\ currentSmsState' = "SMS_IDLE"
            IN  /\ lastDbMillis' = (IF attempted THEN clock ELSE lastDbMillis)
                /\ (attempted /\ ~(prepareOk /\ stepOk)) => readings' = readings
                /\ (attempted /\ prepareOk /\ stepOk)
                     => /\ Len(readings') = Len(readings) + 1
                        /\ SubSeq(readings', 1, Len(readings)) = readings
                /\ ~attempted => readings' = readings
                /\ pc' = "wait"
                /\ IF UGe(USub(clock, lastSensorMillis), SENSOR_INTERVAL)
                     THEN temperature' = t /\ lastSensorMillis' = clock
                     ELSE UNCHANGED <<temperature, lastSensorMillis>>
                /\ SmsNext = AfterEvaluation
                /\ sim800' = AfterManage.out]_vars

(* The save at 35100 ms failed; the one at 65100 ms, the next attempt,       *)
(* appended its row behind the boot row                                      *)
C25_Witness ==
  /\ pc = "wait" /\ hist.wrote = "reading" /\ hist.jobs = <<>>
  /\ clock = SETUP_DELAY + (2 * DB_SAVE_INTERVAL) /\ lastDbMillis = clock
  /\ Len(readings) = 2 /\ readings[2].temp = temperature

----------------------------------------------------------------------------
(* C26: a save that succeeds appends exactly one row, holding the shared     *)
(* reading of that moment.  The row's timestamp is "Offline-" and the        *)
(* seconds since boot exactly when getLocalTime() failed at the save, and is *)
(* the date and time getLocalTime() gave exactly when it did not fail.       *)
C26_OfflineIffNoClock ==
  [][\A t \in SaveTemps, lt \in SaveTimes, prepareOk \in BOOLEAN, stepOk \in BOOLEAN :
       (Body(t, 8000, TRUE, 4900, 390, lt, prepareOk, stepOk) /\ readings' # readings)
         => /\ prepareOk /\ stepOk
            /\ Len(readings') = Len(readings) + 1
            /\ SubSeq(readings', 1, Len(readings)) = readings
            /\ LET row == readings'[Len(readings')]
               IN  /\ row.temp = temperature' /\ row.hum = humidity'
                   /\ row.weight = weight' /\ row.mq = mq135_raw'
                   /\ (row.timestamp.prefix = "Offline-") <=> (lt = NoLocalTime)
                   /\ lt = NoLocalTime
                        => row.timestamp = [prefix |-> "Offline-", day |-> 0,
                                            n |-> UDiv1000(clock)]
                   /\ lt # NoLocalTime
                        => row.timestamp = [prefix |-> "", day |-> lt \div SecondsPerDay,
                                            n |-> lt % SecondsPerDay]]_vars

(* Two periodic saves behind the boot row: the first without wall-clock      *)
(* time, marked offline with 35 seconds since boot, the second with it,      *)
(* dated                                                                     *)
C26_Witness ==
  /\ pc = "wait" /\ hist.wrote = "reading" /\ Len(readings) = 3
  /\ readings[2].timestamp = [prefix |-> "Offline-", day |-> 0, n |-> 35]
  /\ readings[3].timestamp.prefix = "" /\ readings[3].timestamp.day = FirstDay
  /\ readings[3].temp = 3900

----------------------------------------------------------------------------
(* ClientSpec: one client logs in and gets the marker cookie; requests come  *)
(* with no cookie, with that cookie, with the cleared cookie, and with the   *)
(* header of another client that was never sent a cookie and writes the      *)
(* marker itself.                                                            *)

MaxClientPasses == 4
ClientDeltas == {0, 1, SESSION_TIMEOUT}
ClientCookies == {NoCookie, MarkerCookie, ClearedCookie, ForeignCookie}

ClientLoop == Body(4000, 8500, TRUE, 5000, 400, NoLocalTime, FALSE, FALSE)

ClientNext ==
  \/ Tick(ClientDeltas, MaxClientPasses)
  \/ NoRequest
  \/ HandleLogin(login_user, login_pass)
  \/ HandleLogout
  \/ (\E c \in ClientCookies : HandleData(c))
  \/ (\E c \in ClientCookies : HandlePage("/dashboard", c))
  \/ ClientLoop

ClientSpec == Init /\ [][ClientNext]_vars

----------------------------------------------------------------------------
(* C27: whether a request is let in depends on the flag, on millis() against *)
(* session_expiry and on the marker being in its Cookie header, and on       *)
(* nothing else: the header of a client that never logged in is let in while *)
(* the session another client started is live, is answered what that client  *)
(* would be answered, and moves the expiry as that client's request would.   *)
C27_AnyClientWithMarker ==
  [][\A c \in ClientCookies :
       (HandleData(c) \/ HandlePage("/dashboard", c))
         => LET live == is_logged_in /\ ~UGt(clock, session_expiry)
                marked == c \in {MarkerCookie, ForeignCookie}
            IN  /\ LetIn(resp') <=> (live /\ marked)
                /\ (live /\ marked)
                     => /\ session_expiry' = UAdd(clock, SESSION_TIMEOUT)
                        /\ is_logged_in'
                        /\ resp'.route = "/data"
                             => resp'.json = <<temperature, humidity, weight, mq135_raw>>
                /\ (live /\ ~marked) => UNCHANGED sessionVars]_vars

(* The client that never logged in was given the readings while the session  *)
(* started by the other client was live                                      *)
C27_Witness ==
  /\ pc = "body" /\ resp.route = "/data" /\ resp.code = 200
  /\ hist.cookie = ForeignCookie /\ hist.wasLoggedIn
  /\ session_expiry = UAdd(clock, SESSION_TIMEOUT)

----------------------------------------------------------------------------
(* WrapSpec: millis() close to the end of its 32 bits.  A pass may come 49   *)
(* days after the one before, one second short of the wrap.                  *)

MaxWrapPasses == 4
ToNearWrap == UNeg(SETUP_DELAY + 1000)
WrapDeltas == {1, 1000, ToNearWrap}

WrapLoop == Body(4000, 8500, TRUE, 5000, 400, NoLocalTime, FALSE, FALSE)

WrapNext ==
  \/ Tick(WrapDeltas, MaxWrapPasses)
  \/ NoRequest
  \/ HandleLogin(login_user, login_pass)
  \/ (\E c \in {NoCookie, MarkerCookie} : HandleData(c))
  \/ WrapLoop

WrapSpec == Init /\ [][WrapNext]_vars

----------------------------------------------------------------------------
(* millis() at the last login or renewal, and the time gone by since then,   *)
(* both on the 32-bit counter                                                *)
LastRenewal == USub(session_expiry, SESSION_TIMEOUT)

SinceRenewal == USub(clock, LastRenewal)

(* C28, as claimed: on the wrapping 32-bit counter, a request with the       *)
(* marker cookie is let in exactly when the flag is set and no more than     *)
(* SESSION_TIMEOUT has gone by since the last login or renewal, also when    *)
(* the expiry computed at that login or renewal lies beyond the wrap.        *)
C28_SessionAcrossWrap ==
  [][HandleData(MarkerCookie)
       => (LetIn(resp') <=> (is_logged_in /\ ~UGt(SinceRenewal, SESSION_TIMEOUT)))]_vars

----------------------------------------------------------------------------
(* FrameSpec: alerts and test messages in flight while the phone number is   *)
(* saved anew and the temperature moves from sample to sample.               *)

MaxFramePasses == 6
FrameDeltas == {3001, SMS_COOLDOWN}
FrameTemps == {4100, 4200}

FrameLoop ==
  \E t \in FrameTemps : Body(t, 8000, TRUE, 4900, 390, NoLocalTime, FALSE, FALSE)

FrameNext ==
  \/ Tick(FrameDeltas, MaxFramePasses)
  \/ NoRequest
  \/ HandleLogin(login_user, login_pass)
  \/ HandleSms(MarkerCookie)
  \/ HandleSaveSettings(MarkerCookie, "+254722222222", <<4000>>, <<8500>>, <<5000>>,
                        <<40000>>, TRUE, TRUE)
  \/ FrameLoop

FrameSpec == Init /\ [][FrameNext]_vars

----------------------------------------------------------------------------
(* C29: from the acceptance of a job to the acceptance of the next, no step  *)
(* changes smsQueueNum or smsQueueMsg, a /save_settings with another phone   *)
(* number and a sample with another reading included; the recipient and the  *)
(* body written to the modem are those the job was accepted with.            *)
C29_JobFixedAtAcceptance ==
  [][/\ hist'.jobs = hist.jobs
          => /\ smsQueueNum' = smsQueueNum
             /\ smsQueueMsg' = smsQueueMsg
     /\ hist'.jobs # hist.jobs
          => /\ smsQueueNum' = activePhoneNumber
             /\ smsQueueMsg' = hist'.jobs[Len(hist'.jobs)].msg
     /\ Len(sim800') > Len(sim800)
          => LET job == hist.jobs[Len(hist.jobs)]
                 written == sim800'[Len(sim800')]
             IN  /\ written.cmd = "AT+CMGS=" => written.arg = job.num
                 /\ written.cmd = "26" => written.msg = job.msg]_vars

(* An alert on 41.0 was accepted for the first phone number; the number was  *)
(* then changed and the temperature went to 42.0, and the modem was given    *)
(* the first number and the message on 41.0                                  *)
C29_Witness ==
  /\ pc = "wait" /\ currentSmsState = "SMS_WAIT"
  /\ activePhoneNumber = "+254722222222" /\ sim800[3].arg = DefaultPhone
  /\ temperature = 4200
  /\ sim800[4].cmd = "26" /\ sim800[4].msg.kind = "High Temperature"
  /\ sim800[4].msg.reading = 4100

----------------------------------------------------------------------------
(* SlowSpec: loop() passes as rarely as the sensor interval allows, 2000 ms  *)
(* apart, for a little over two cooldowns, with a temperature above its      *)
(* limit at every sample; no /sms is ever let in.                            *)

MaxSlowPasses == 305
SlowDeltas == {SENSOR_INTERVAL}

SlowLoop == Body(4100, 8000, TRUE, 4900, 390, NoLocalTime, FALSE, FALSE)

SlowNext ==
  \/ Tick(SlowDeltas, MaxSlowPasses)
  \/ NoRequest
  \/ HandleSms(NoCookie)
  \/ SlowLoop

SlowSpec == Init /\ [][SlowNext]_vars

----------------------------------------------------------------------------
(* C30: with passes no more than 2000 ms apart and no job queued by /sms,    *)
(* every alert the evaluator raises finds the dispatcher SMS_IDLE and is     *)
(* accepted: the pass that sets lastSmsCooldown queues the job, with the     *)
(* settings phone number and the alert's message.                            *)
C30_NoAlertDropped ==
  [][(BodyStep /\ hist'.alerts # hist.alerts)
       => /\ AfterManage.sms.state = "SMS_IDLE"
          /\ lastSmsCooldown' = clock
          /\ currentSmsState' = "SMS_MODE"
          /\ hist'.jobs = Append(hist.jobs, [num |-> activePhoneNumber,
                                             msg |-> hist'.alertMsg])
          /\ smsQueueMsg' = hist'.alertMsg /\ smsQueueNum' = activePhoneNumber]_vars

(* The second alert, one cooldown after the first, was accepted: the         *)
(* dialogue of the first had long been written to the modem                  *)
C30_Witness ==
  /\ pc = "wait" /\ currentSmsState = "SMS_MODE"
  /\ Len(hist.alerts) = 2 /\ Len(hist.jobs) = 2
  /\ USub(hist.alerts[2], hist.alerts[1]) = SMS_COOLDOWN
  /\ Len(sim800) = 4 /\ sim800[4].cmd = "26"

----------------------------------------------------------------------------
(* C31: a /save_settings with a valid session and no phone argument is       *)
(* answered 400 and leaves the settings in memory and the settings row as    *)
(* they were, whatever limits it carries; a request changes the settings in  *)
(* memory or the settings row only if it is a /save_settings that carries    *)
(* phone, and they then hold that phone number.                              *)
C31_NoPhoneNoChange ==
  [][/\ \A c \in {NoCookie, MarkerCookie}, lt \in TempTexts, lh \in HumTexts,
          lw \in WeightTexts, la \in AirTexts :
          (HandleSaveSettings(c, NoArg, lt, lh, lw, la, TRUE, TRUE) /\ ValidSession(c))
            => /\ resp' = Reply("/save_settings", 400, "Bad Request")
               /\ UNCHANGED <<settingsVars, settingsRow>>
     /\ (ClientStep /\ (SettingsNext1 # SettingsNow \/ settingsRow' # settingsRow))
          => /\ resp' = Reply("/save_settings", 303, "/dashboard")
             /\ activePhoneNumber' \in SettingsPhones \ {NoArg}
             /\ settingsRow'.phone = activePhoneNumber']_vars

(* Limits of 40.27 were saved with a phone number; a later request with a    *)
(* valid session and no phone was answered 400 and the saved settings are    *)
(* still in memory and in the settings row                                   *)
C31_Witness ==
  /\ pc = "body" /\ resp = Reply("/save_settings", 400, "Bad Request")
  /\ hist.cookie = MarkerCookie /\ hist.wasLoggedIn
  /\ activePhoneNumber = "+254722222222" /\ lim_temp = 4027
  /\ settingsRow = SettingsNow

----------------------------------------------------------------------------
(* C32: a /sms with a valid session leaves lastSmsCooldown as it is and is   *)
(* accepted exactly when the dispatcher is SMS_IDLE, inside the cooldown as  *)
(* outside it: the job is then the test message for the settings phone       *)
(* number.  The evaluator therefore raises its next alert at the first       *)
(* breach it evaluates a cooldown after its own last alert, whenever test    *)
(* messages were sent in between.                                            *)
C32_ManualIgnoresCooldown ==
  [][/\ (HandleSms(MarkerCookie) /\ ValidSession(MarkerCookie))
          => /\ lastSmsCooldown' = lastSmsCooldown
             /\ IF currentSmsState = "SMS_IDLE"
                  THEN /\ currentSmsState' = "SMS_MODE"
                       /\ smsQueueNum' = activePhoneNumber /\ smsQueueMsg' = TestMsg
                       /\ hist'.jobs = Append(hist.jobs, [num |-> activePhoneNumber,
                                                          msg |-> TestMsg])
                  ELSE SmsNext = SmsNow /\ hist'.jobs = hist.jobs
     /\ ClientStep => lastSmsCooldown' = lastSmsCooldown
     /\ (BreachEvaluated /\ UGe(USub(clock, lastSmsCooldown), SMS_COOLDOWN))
          => hist'.alerts = Append(hist.alerts, clock)]_vars

(* An alert was raised and its job sent; a test message asked for 15 s after *)
(* the alert, well inside the cooldown, was accepted, and the cooldown still *)
(* runs from the alert                                                       *)
C32_Witness ==
  /\ pc = "body" /\ resp = Reply("/sms", 200, "Queued")
  /\ currentSmsState = "SMS_MODE" /\ smsQueueMsg = TestMsg
  /\ Len(hist.jobs) = 2 /\ hist.jobs[1].msg.kind = "High Temperature"
  /\ hist.alerts = <<lastSmsCooldown>>
  /\ USub(clock, lastSmsCooldown) = 5 * 3001

====
